---- MODULE Spec2Model ----
(***************************************************************************)
(* Model of the VoiceAI orchestration core.                                *)
(*                                                                         *)
(*   - backend audio cache and narration routes                            *)
(*       (backend/src/routes/ai.js, backend/src/routes/slides.js,          *)
(*        the TextToSpeechService with Google TTS and the say fallback)    *)
(*   - the walkthrough page's look-ahead scheduler (two versions of        *)
(*       Walkthrough.tsx: one driven by useEffect[currentSlide] with a     *)
(*       delayed timer, one driven by navigateToSlide)                     *)
(*   - the conversation session manager (services/conversationalAI.js)     *)
(*                                                                         *)
(* Each subsystem has its own specification (SpecCache, SpecWalk,          *)
(* SpecConv); the variables of the other subsystems stay at their          *)
(* constructed values.                                                     *)
(***************************************************************************)
EXTENDS Integers, Sequences, FiniteSets, TLC

VARIABLES
    \* ---- backend: audio cache, /pregenerate-audio, /narrate, upload ----
    disk,        \* files under uploads/audio: set of [name, content]
    req,         \* request table: request id -> request record
    nextReq,     \* id the next incoming request gets
    genAI,       \* TextToSpeechService.genAI is set (GEMINI_API_KEY given)
    now,         \* the server's Date.now(), in milliseconds
    \* ---- frontend: Walkthrough page ----
    variant,     \* which Walkthrough source is running
    mounted,     \* the page's mount effect has run
    slides,      \* React state `slides`: index -> slide record
    currentSlide,
    timers,      \* pending setTimeout callbacks, in firing order
    inflight,    \* index -> number of outstanding /pregenerate-audio fetches
    narrating,   \* index -> number of outstanding /narrate fetches
    ui,          \* what the user sees: isNarrating, narrationText, audioUrl
                 \* (and the pending 3 s timers that clear isNarrating)
    navs,        \* number of clicks (navigation, play) so far
    lastEvent,   \* the event handled last: [kind, idx, ok] (log)
    \* ---- conversation sessions ----
    conversations, \* ConversationalAI.conversations: sessionId -> object id
    heap,          \* session objects: object id -> session record
    asks,          \* generateResponse calls in progress or finished
    clock,         \* Date.now() as seen by the conversation service
    evt,           \* number of ask start/finish events so far (ordering ghost)
    lastOp,        \* the conversation operation handled last: [kind, sid, arg] (log)
    ops,           \* number of conversation requests received so far
    \* ---- text generation router and POST /conversation/ask ----
    currentProvider, \* AIProviderService.currentProvider
    providers,       \* AIProviderService.providers: name -> client exists
    gens,            \* POST /conversation/ask requests: id -> request record
    \* ---- uploads folder, presentation contexts, clean-up ----
    files,           \* files under uploads/: set of [dir, name, mtime]
    contexts,        \* presentationContexts: the ids that have a stored context
    storing,         \* ids whose context file is still being written
    fsNow,           \* Date.now() as seen by the clean-up code, in seconds
    lastStoreOp,     \* the storage operation handled last: [kind, arg, count, n] (log)
    \* ---- intent detection and slide ranking (pure functions) ----
    intentInput,     \* the userInput passed to detectIntent (characters)
    rankInput,       \* [userInput, slideContext] passed to findRelevantSlides
    intentResult,    \* what detectIntent returned, or NoIntent before the call
    relevantSlides,  \* what findRelevantSlides returned, or NoRanking before the call
    \* ---- SlideContextService: search over an indexed presentation ----
    searchInput,     \* [indexed, slides, userQuestion, answer] of one findRelevantSlides call
    searchResult,    \* what the call settled with: [kind, relevantSlides]
    \* ---- GET /uploads/audio/:filename ----
    audioRequest,    \* [exists, fileSize, range] of one request
    audioResponse,   \* [status, headers..., body] of its answer
    \* ---- POST /ai-providers/switch ----
    switchReply      \* [provider, success, status] of the switch answered last (log)

varsCache == <<disk, req, nextReq, genAI, now>>
varsWalk  == <<variant, mounted, slides, currentSlide, timers, inflight, narrating, ui,
               navs, lastEvent>>
varsConv  == <<conversations, heap, asks, clock, evt, lastOp, ops>>
varsProv  == <<currentProvider, providers, gens, switchReply>>
varsStore == <<files, contexts, storing, fsNow, lastStoreOp>>
varsText  == <<intentInput, rankInput, intentResult, relevantSlides>>
varsSearch == <<searchInput, searchResult>>
varsAudio == <<audioRequest, audioResponse>>
vars      == <<varsCache, varsWalk, varsConv, varsProv, varsStore, varsText, varsSearch,
               varsAudio>>

-----------------------------------------------------------------------------
(* JavaScript values                                                        *)

\* `undefined` / `null` / a missing property
Undef == "undefined"

\* JavaScript truthiness of a string-or-undefined value
Truthy(v) == v # Undef /\ v # ""

\* a || b on string-or-undefined values
OrElse(a, b) == IF Truthy(a) THEN a ELSE b

-----------------------------------------------------------------------------
(* Bounds and input sets of the backend model                               *)

MaxReq == 2
MaxNow == 1
MaxPage == 1

HexDigits == <<"0", "1", "2", "3", "4", "5", "6", "7", "8", "9", "a", "b", "c", "d", "e", "f">>

\* the characters of [a-zA-Z0-9] that occur in the model's names
AlphaNum == {HexDigits[i] : i \in 1..16} \cup {"k", "n", "o", "u", "w"}

\* the file names (without extension) of uploaded decks, as character sequences
PptNames == { <<"a", ".", "b">>, <<"a", "_", "b">> }

\* contents of uploaded source files
FileContents == {1, 2}

\* texts a narration provider can answer with ("" = blank after trim)
NarrationTexts == {"", "nA"}

-----------------------------------------------------------------------------
(* Backend: file names, cache keys, disk                                    *)

\* the literal 'unknown' of `slide.pptName || 'unknown'`
Unknown == <<"u", "n", "k", "n", "o", "w", "n">>

\* name.replace(/[^a-zA-Z0-9]/g, '_')
cleanPptName(name) ==
    [i \in DOMAIN name |-> IF name[i] \in AlphaNum THEN name[i] ELSE "_"]

\* str.substring(0, n)
Substring0(str, n) == SubSeq(str, 1, IF Len(str) < n THEN Len(str) ELSE n)

\* crypto.createHash('sha256').update(fileBuffer).digest('hex'): 64 hex digits,
\* a function of the content alone (abstract, collision free on FileContents)
generateFileHash(content) ==
    [i \in 1..64 |-> HexDigits[((content * 11 + i * content) % 16) + 1]]

\* a file name without extension: `${kind}-${tag}-${n}` (slide-<name>-<page>) or
\* `${kind}-${n}-${t}` (narration-<id>-<Date.now()>, fallback-<id>-<Date.now()>)
FileKey(kind, tag, n, t) == [kind |-> kind, tag |-> tag, n |-> n, t |-> t]
NoKey == FileKey("none", <<>>, 0, 0)

\* an audio URL /uploads/audio/<name>.<ext>, or null
Url(key, ext) == [key |-> key, ext |-> ext]
NoUrl == Url(NoKey, "none")

\* POST /pregenerate-audio: audioFilename = `slide-${cleanPptName}-${slide.pageNumber}`
\* with pptName = slide.pptName || 'unknown' (an empty name is falsy)
AudioFilename(body) ==
    FileKey("slide",
            cleanPptName(IF body.pptName = <<>> THEN Unknown ELSE body.pptName),
            body.pageNumber, 0)

\* preGenerateAudio at upload: `slide-${fileHash.substring(0, 12)}-${pageNumber}`,
\* fileHash being the content hash, or the cleaned file name when hashing failed
UploadAudioFilename(body, hashOk) ==
    FileKey("slide",
            Substring0(IF hashOk THEN generateFileHash(body.content)
                                 ELSE cleanPptName(body.pptName), 12),
            body.pageNumber, 0)

\* `narration-${slide.id || 'slide'}-${Date.now()}` and the fallback- twin
NarrationFilename(body, t) == FileKey("narration", <<>>, body.id, t)
FallbackFilename(body, t) == FileKey("fallback", <<>>, body.id, t)

\* fs.existsSync(path.join(audioDir, `${key}.${ext}`))
Exists(d, key, ext) == \E f \in d : f.key = key /\ f.ext = ext

\* fs.readFileSync(..., 'utf-8') of an existing file
ReadFile(d, key, ext) == (CHOOSE f \in d : f.key = key /\ f.ext = ext).text

\* fs.writeFileSync / the wav writer: create or overwrite
WriteFile(d, key, ext, text) ==
    {f \in d : ~(f.key = key /\ f.ext = ext)} \cup {[key |-> key, ext |-> ext, text |-> text]}

-----------------------------------------------------------------------------
(* Backend: request bodies                                                  *)

SlideBody(pptName, page, hasImage, preAudio, preNarr, content) ==
    [pptName |-> pptName, pageNumber |-> page, id |-> page,
     hasImage |-> hasImage,          \* slide.image starts with '/uploads/'
     title |-> "Slide", text |-> "Page text",
     preGeneratedAudio |-> preAudio, preGeneratedNarration |-> preNarr,
     content |-> content]            \* the uploaded file's bytes (upload only)

\* bodies of POST /pregenerate-audio and POST /narrate
ClientBodies ==
    { SlideBody(n, p, img, NoUrl, Undef, 0) :
        n \in PptNames, p \in 1..MaxPage, img \in BOOLEAN }
    \cup
    { SlideBody(n, p, TRUE, Url(FileKey("slide", cleanPptName(n), p, 0), "wav"), narr, 0) :
        n \in PptNames, p \in 1..MaxPage, narr \in {Undef, "nA"} }

\* a slide object that carries neither text nor title
Untitled(body) == [body EXCEPT !.title = Undef, !.text = Undef]

\* bodies of POST /narrate: those above, and slides without text and title
NarrateBodies ==
    ClientBodies \cup
    { Untitled(SlideBody(<<"a", "_", "b">>, 1, img, NoUrl, Undef, 0)) : img \in BOOLEAN }

\* the first slide of an uploaded deck (slides.js: index === 0)
UploadBodies ==
    { SlideBody(n, 1, TRUE, NoUrl, Undef, c) : n \in PptNames, c \in FileContents }

NoBody == SlideBody(<<>>, 0, FALSE, NoUrl, Undef, 0)

NoResp == [status |-> 0, audioUrl |-> NoUrl, narration |-> Undef]

IdleReq ==
    [kind |-> "none", body |-> NoBody, pc |-> "idle", phase |-> "main",
     key |-> NoKey, narration |-> Undef,
     genCalls |-> 0,      \* generateSlideNarration invocations
     ttsCalls |-> 0,      \* textToSpeechFile invocations
     engines |-> <<>>,    \* the engines the current textToSpeech call has invoked
     audioBy |-> "none",  \* the engine whose audio the call resolved with
     resp |-> NoResp,
     afterReady |-> FALSE]  \* an identical request had succeeded before this one

\* slide.text || slide.title || 'This slide contains important presentation content.'
BasicNarration(body) == OrElse(body.text, OrElse(body.title, "default narration"))

\* ImageAnalysisService.generateFallbackNarration: never empty
generateFallbackNarration(body) == "fallback narration"

\* what generateSlideNarration can resolve with: a provider's text, or the
\* fallback narration when every provider failed; it never rejects
SlideNarrations(body) == NarrationTexts \cup {generateFallbackNarration(body)}

-----------------------------------------------------------------------------
(* Backend: the routes, one action per uninterrupted stretch of a handler   *)

\* HasReadyRecord with the narration test dropped (the test /pregenerate-audio makes)
HasReadyRecord_AudioOnly(body) == body.preGeneratedAudio # NoUrl

\* POST /narrate: `slide.preGeneratedAudio && slide.preGeneratedNarration`
HasReadyRecord(body) ==
    body.preGeneratedAudio # NoUrl /\ Truthy(body.preGeneratedNarration)

\* res.json / res.status(..).json, or preGenerateAudio returning slideInfo
Respond(rec, status, url, narr) ==
    [rec EXCEPT !.pc = "done",
                !.resp = [status |-> status, audioUrl |-> url, narration |-> narr]]

\* slide.text || slide.title || 'This slide presents important information.'
FallbackNarrationText_NoDefault(body) == OrElse(body.text, body.title)

FallbackNarrationText(body) == OrElse(body.text, OrElse(body.title, "default fallback"))

\* the engine textToSpeech turns to first: Google Gemini TTS when the client
\* exists, else the local say engine
FirstEngine_Say == "say"

FirstEngine == IF genAI THEN "google" ELSE "say"

\* `await textToSpeechFile(..)` rejected: what the caller's catch does at time t
TtsRejected(rec, t) ==
    CASE rec.kind = "pregen" -> Respond(rec, 500, NoUrl, Undef)
      [] rec.kind = "upload" -> Respond(rec, 200, NoUrl, Undef)
      [] rec.kind = "narrate" /\ rec.phase = "main" ->
            \* the fallback text is never blank, so this call reaches an engine
            [rec EXCEPT !.phase = "fallback",
                        !.narration = FallbackNarrationText(rec.body),
                        !.key = FallbackFilename(rec.body, t),
                        !.ttsCalls = @ + 1,
                        !.engines = <<FirstEngine>>,
                        !.audioBy = "none",
                        !.pc = FirstEngine]
      [] OTHER -> Respond(rec, 200, NoUrl, rec.narration)

\* textToSpeechFile(text, filename) up to its first suspension: a blank text
\* throws, otherwise the first engine's call is under way
TtsStart(rec, text, key, t) ==
    LET r1 == [rec EXCEPT !.narration = text, !.key = key, !.ttsCalls = @ + 1]
    IN  IF Truthy(text)
        THEN [r1 EXCEPT !.pc = FirstEngine, !.engines = <<FirstEngine>>,
                        !.audioBy = "none"]
        ELSE TtsRejected([r1 EXCEPT !.engines = <<>>, !.audioBy = "none"], t)

\* textToSpeechFile always answers `/uploads/audio/${filename}.wav`
TtsFileUrl(key) == Url(key, "wav")

\* an identical /pregenerate-audio request has completed successfully before
PriorReady(body) ==
    \E q \in DOMAIN req :
        /\ req[q].kind = "pregen" /\ req[q].body = body
        /\ req[q].pc = "done" /\ req[q].resp.status = 200

\* an identical file has been processed before and got its audio record
PriorUploaded(body) ==
    \E q \in DOMAIN req :
        /\ req[q].kind = "upload" /\ req[q].body = body
        /\ req[q].pc = "done" /\ req[q].resp.audioUrl # NoUrl

\* the narration served with a cached audio file
CachedNarration(d, key, body) ==
    IF Exists(d, key, "txt") THEN ReadFile(d, key, "txt")
    ELSE OrElse(body.text, "Slide N")

\* POST /api/pregenerate-audio, up to its first await
PregenerateAudio ==
    /\ UNCHANGED <<varsWalk, varsConv, varsProv, varsStore, varsText, varsSearch, varsAudio>>
    /\ \E body \in ClientBodies :
        LET r == nextReq
            key == AudioFilename(body)
            rec0 == [IdleReq EXCEPT !.kind = "pregen", !.body = body, !.key = key,
                                    !.afterReady = PriorReady(body)]
        IN  /\ nextReq <= MaxReq
            /\ nextReq' = nextReq + 1
            /\ req' = [req EXCEPT ![r] =
                  IF body.preGeneratedAudio # NoUrl
                  THEN Respond(rec0, 200, body.preGeneratedAudio, body.preGeneratedNarration)
                  ELSE IF Exists(disk, key, "wav")
                  THEN Respond(rec0, 200, Url(key, "wav"), CachedNarration(disk, key, body))
                  ELSE IF body.hasImage
                  THEN [rec0 EXCEPT !.pc = "narrating", !.genCalls = 1]
                  ELSE TtsStart(rec0, BasicNarration(body), key, now)]
            /\ UNCHANGED <<disk, genAI, now>>

\* POST /api/narrate, up to its first await
Narrate ==
    /\ UNCHANGED <<varsWalk, varsConv, varsProv, varsStore, varsText, varsSearch, varsAudio>>
    /\ \E body \in NarrateBodies :
        LET r == nextReq
            rec0 == [IdleReq EXCEPT !.kind = "narrate", !.body = body]
        IN  /\ nextReq <= MaxReq
            /\ nextReq' = nextReq + 1
            /\ req' = [req EXCEPT ![r] =
                  IF HasReadyRecord(body)
                  THEN Respond(rec0, 200, body.preGeneratedAudio, body.preGeneratedNarration)
                  ELSE IF body.hasImage
                  THEN [rec0 EXCEPT !.pc = "narrating", !.genCalls = 1]
                  ELSE TtsStart(rec0, BasicNarration(body), NarrationFilename(body, now), now)]
            /\ UNCHANGED <<disk, genAI, now>>

\* preGenerateAudio(slideInfo, pptName, pptFilePath) of POST /api/slides/process,
\* up to `await generateFileHash`
PreGenerateAudio ==
    /\ UNCHANGED <<varsWalk, varsConv, varsProv, varsStore, varsText, varsSearch, varsAudio>>
    /\ \E body \in UploadBodies :
        /\ nextReq <= MaxReq
        /\ nextReq' = nextReq + 1
        /\ req' = [req EXCEPT ![nextReq] =
              [IdleReq EXCEPT !.kind = "upload", !.body = body, !.pc = "hashing",
                              !.afterReady = PriorUploaded(body)]]
        /\ UNCHANGED <<disk, genAI, now>>

\* preGenerateAudio after the hash is known (or hashing threw)
HashDone ==
    /\ UNCHANGED <<varsWalk, varsConv, varsProv, varsStore, varsText, varsSearch, varsAudio>>
    /\ \E r \in DOMAIN req, hashOk \in BOOLEAN :
        LET rec == req[r]
            key == UploadAudioFilename(rec.body, hashOk)
            rec1 == [rec EXCEPT !.key = key]
        IN  /\ rec.pc = "hashing"
            /\ req' = [req EXCEPT ![r] =
                  IF Exists(disk, key, "wav")
                  THEN Respond(rec1, 200, Url(key, "wav"), CachedNarration(disk, key, rec.body))
                  ELSE [rec1 EXCEPT !.pc = "narrating", !.genCalls = 1]]
            /\ UNCHANGED <<disk, nextReq, genAI, now>>

\* generateSlideNarration resolved; the handler goes on to textToSpeechFile
NarrationDone ==
    /\ UNCHANGED <<varsWalk, varsConv, varsProv, varsStore, varsText, varsSearch, varsAudio>>
    /\ \E r \in DOMAIN req :
        \E text \in SlideNarrations(req[r].body) :
            LET rec == req[r]
                key == IF rec.kind = "narrate" THEN NarrationFilename(rec.body, now)
                                               ELSE rec.key
            IN  /\ rec.pc = "narrating"
                /\ req' = [req EXCEPT ![r] = TtsStart(rec, text, key, now)]
                /\ UNCHANGED <<disk, nextReq, genAI, now>>

\* textToSpeechFile resolved: the caller answers with the .wav URL
TtsResolved(rec) ==
    Respond(rec, 200, TtsFileUrl(rec.key), rec.narration)

\* the two pre-generation paths cache the narration text beside the audio
DiskAfterTts(d, rec) ==
    IF rec.kind \in {"pregen", "upload"}
    THEN WriteFile(d, rec.key, "txt", rec.narration)
    ELSE d

\* textToSpeechGoogle: the provider answered; with audio data the wav writer
\* creates <name>.wav, otherwise the error is caught and say takes over
GoogleDone ==
    /\ UNCHANGED <<varsWalk, varsConv, varsProv, varsStore, varsText, varsSearch, varsAudio>>
    /\ \E r \in DOMAIN req, ok \in BOOLEAN :
        /\ req[r].pc = "google"
        /\ IF ok
           THEN /\ disk' = WriteFile(disk, req[r].key, "wav", req[r].narration)
                /\ req' = [req EXCEPT ![r].pc = "saving", ![r].audioBy = "google"]
           ELSE /\ disk' = disk
                /\ req' = [req EXCEPT ![r].pc = "say",
                                      ![r].engines = Append(@, "say")]
        /\ UNCHANGED <<nextReq, genAI, now>>

\* saveWaveFile's 'finish' event
WavSaved ==
    /\ UNCHANGED <<varsWalk, varsConv, varsProv, varsStore, varsText, varsSearch, varsAudio>>
    /\ \E r \in DOMAIN req :
        /\ req[r].pc = "saving"
        /\ disk' = DiskAfterTts(disk, req[r])
        /\ req' = [req EXCEPT ![r] = TtsResolved(req[r])]
        /\ UNCHANGED <<nextReq, genAI, now>>

\* textToSpeechSayWithConvert: say/afconvert ended; on success <name>.mp3 exists
SayDone ==
    /\ UNCHANGED <<varsWalk, varsConv, varsProv, varsStore, varsText, varsSearch, varsAudio>>
    /\ \E r \in DOMAIN req, ok \in BOOLEAN :
        /\ req[r].pc = "say"
        /\ IF ok
           THEN /\ disk' = DiskAfterTts(WriteFile(disk, req[r].key, "mp3", req[r].narration), req[r])
                /\ req' = [req EXCEPT ![r] =
                              TtsResolved([req[r] EXCEPT !.audioBy = "say"])]
           ELSE /\ disk' = disk
                /\ req' = [req EXCEPT ![r] = TtsRejected(req[r], now)]
        /\ UNCHANGED <<nextReq, genAI, now>>

\* a millisecond passes on the server
TickNow ==
    /\ now < MaxNow
    /\ now' = now + 1
    /\ UNCHANGED <<disk, req, nextReq, genAI>>
    /\ UNCHANGED <<varsWalk, varsConv, varsProv, varsStore, varsText, varsSearch, varsAudio>>

ConstructedCache ==
    /\ disk = {}
    /\ req = [r \in 1..MaxReq |-> IdleReq]
    /\ nextReq = 1
    /\ now = 0

-----------------------------------------------------------------------------
(* Walkthrough page: look-ahead scheduler and foreground narration.         *)
(* Two versions of the page are in the repository:                          *)
(*   "effect"   - useEffect[currentSlide] starts the narration, issues the  *)
(*                job for the next slide and arms a 2 s timer for the one   *)
(*                after it; the only navigation is nextSlide                *)
(*   "navigate" - navigateToSlide issues the job for the next slide; the    *)
(*                narration starts on a click only                          *)
(* Slide indices are 0-based as in the code.  A handler or effect reads the *)
(* `slides` of the render it was created in; a click handler and an effect  *)
(* run with the latest render, a setTimeout callback with the render that   *)
(* armed it.  setSlides(prev => ...) always updates the latest state.       *)

NumSlides == 3
MaxNav == 3

SlideIdx == 0 .. NumSlides - 1

Variants == {"effect", "navigate"}

\* what POST /pregenerate-audio and POST /narrate answer with
ReadyAudioUrl == "/uploads/audio/slide.wav"
ReadyNarration == "nA"
SlideText == "Page text"

\* slides.js: every slide after the first starts with audioStatus 'pending'
PendingSlide ==
    [audioStatus |-> "pending", preGeneratedAudio |-> Undef,
     preGeneratedNarration |-> Undef]

\* slides.js: the first slide has no audioStatus; preGenerateAudio filled in
\* the record, or failed and left the slide as it was
ReadyFirstSlide ==
    [audioStatus |-> Undef, preGeneratedAudio |-> ReadyAudioUrl,
     preGeneratedNarration |-> ReadyNarration]

BareFirstSlide ==
    [audioStatus |-> Undef, preGeneratedAudio |-> Undef,
     preGeneratedNarration |-> Undef]

FirstSlides == {ReadyFirstSlide, BareFirstSlide}

InitialSlides(first) ==
    [i \in SlideIdx |-> IF i = 0 THEN first ELSE PendingSlide]

\* log entry for a handled event
Event(kind, idx, ok) == [kind |-> kind, idx |-> idx, ok |-> ok]

InitialUi ==
    [isNarrating |-> FALSE, narrationText |-> "", audioUrl |-> Undef,
     hideTimers |-> 0]

\* preGenerateNextSlideAudio gets past its early returns (seen = the slides
\* array of the calling closure)
CanIssue(seen, idx) ==
    IF idx >= NumSlides THEN FALSE
    ELSE /\ ~Truthy(seen[idx].preGeneratedAudio)
         /\ seen[idx].audioStatus # "generating"

\* setSlides(prev => ... audioStatus: 'generating')
MarkGenerating(s) == [s EXCEPT !.audioStatus = "generating"]

\* a response.ok branch that records the status only
MarkReady_StatusOnly(s, data) == [s EXCEPT !.audioStatus = "ready"]

\* setSlides in the response.ok branch
MarkReady(s, data) ==
    [s EXCEPT !.preGeneratedAudio = data.audioUrl,
              !.preGeneratedNarration = data.narration,
              !.audioStatus = "ready"]

\* setSlides in the !response.ok branch and in the catch block
MarkFailed_Pending(s) == [s EXCEPT !.audioStatus = "pending"]

MarkFailed(s) == [s EXCEPT !.audioStatus = "failed"]

\* preGenerateNextSlideAudio(idx) up to its await fetch, called from a closure
\* that sees `seen`; cur and inf are the latest slides and outstanding fetches
SlidesAfterSchedule(cur, seen, idx) ==
    IF CanIssue(seen, idx) THEN [cur EXCEPT ![idx] = MarkGenerating(@)] ELSE cur

InflightAfterSchedule(inf, seen, idx) ==
    IF CanIssue(seen, idx) THEN [inf EXCEPT ![idx] = @ + 1] ELSE inf

\* startNarration plays the slide's own record instead of calling /narrate
UsesLocalAudio(v, s) ==
    IF v = "effect"
    THEN Truthy(s.preGeneratedAudio) /\ Truthy(s.preGeneratedNarration)
    ELSE Truthy(s.preGeneratedAudio)

\* startNarration up to its await fetch (or to its early return)
UiAfterStart(v, u, s) ==
    IF v = "effect"
    THEN IF UsesLocalAudio(v, s)
         THEN [u EXCEPT !.isNarrating = TRUE,
                        !.narrationText = s.preGeneratedNarration,
                        !.audioUrl = s.preGeneratedAudio]
         ELSE [u EXCEPT !.isNarrating = TRUE, !.narrationText = "",
                        !.audioUrl = Undef]
    ELSE IF UsesLocalAudio(v, s)
         THEN [u EXCEPT !.isNarrating = TRUE,
                        !.narrationText = OrElse(s.preGeneratedNarration, SlideText),
                        !.audioUrl = s.preGeneratedAudio]
         ELSE [u EXCEPT !.isNarrating = TRUE]

NarratingAfterStart(v, nar, s, idx) ==
    IF UsesLocalAudio(v, s) THEN nar ELSE [nar EXCEPT ![idx] = @ + 1]

\* the body of useEffect(..., [currentSlide]) for the render that shows slide
\* cur: startNarration, the job for cur+1 at once, a 2 s timer for cur+2
EffectFor(cur) ==
    /\ ui' = UiAfterStart(variant, ui, slides[cur])
    /\ narrating' = NarratingAfterStart(variant, narrating, slides[cur], cur)
    /\ slides' = IF cur + 1 < NumSlides
                 THEN SlidesAfterSchedule(slides, slides, cur + 1) ELSE slides
    /\ inflight' = IF cur + 1 < NumSlides
                   THEN InflightAfterSchedule(inflight, slides, cur + 1)
                   ELSE inflight
    /\ timers' = IF cur + 1 < NumSlides /\ cur + 2 < NumSlides
                 THEN Append(timers, [idx |-> cur + 2, seen |-> slides])
                 ELSE timers

\* first render of the page
Mount ==
    /\ UNCHANGED <<varsCache, varsConv, varsProv, varsStore, varsText, varsSearch, varsAudio>>
    /\ lastEvent' = Event("mount", currentSlide, TRUE)
    /\ ~mounted
    /\ mounted' = TRUE
    /\ UNCHANGED <<variant, currentSlide, navs>>
    /\ IF variant = "effect"
       THEN EffectFor(currentSlide)
       ELSE UNCHANGED <<slides, timers, inflight, narrating, ui>>

\* "effect" version: the Next button
NextSlide ==
    /\ UNCHANGED <<varsCache, varsConv, varsProv, varsStore, varsText, varsSearch, varsAudio>>
    /\ lastEvent' = Event("next", currentSlide + 1, TRUE)
    /\ mounted /\ variant = "effect"
    /\ currentSlide < NumSlides - 1
    /\ currentSlide' = currentSlide + 1
    /\ navs' = navs + 1
    /\ UNCHANGED <<variant, mounted>>
    /\ EffectFor(currentSlide + 1)

\* "navigate" version: Previous, Next and the thumbnails
NavigateToSlide ==
    /\ UNCHANGED <<varsCache, varsConv, varsProv, varsStore, varsText, varsSearch, varsAudio>>
    /\ mounted /\ variant = "navigate"
    /\ navs < MaxNav
    /\ \E slideIndex \in SlideIdx :
        /\ currentSlide' = slideIndex
        /\ lastEvent' = Event("navigate", slideIndex, TRUE)
        /\ slides' = IF slideIndex + 1 < NumSlides
                     THEN SlidesAfterSchedule(slides, slides, slideIndex + 1)
                     ELSE slides
        /\ inflight' = IF slideIndex + 1 < NumSlides
                       THEN InflightAfterSchedule(inflight, slides, slideIndex + 1)
                       ELSE inflight
    /\ navs' = navs + 1
    /\ UNCHANGED <<variant, mounted, timers, narrating, ui>>

\* the 2 s timer armed by an earlier effect fires; its callback still sees the
\* slides of the render that armed it
TimerFire ==
    /\ UNCHANGED <<varsCache, varsConv, varsProv, varsStore, varsText, varsSearch, varsAudio>>
    /\ timers # <<>>
    /\ lastEvent' = Event("timer", Head(timers).idx, TRUE)
    /\ LET t == Head(timers) IN
        /\ slides' = SlidesAfterSchedule(slides, t.seen, t.idx)
        /\ inflight' = InflightAfterSchedule(inflight, t.seen, t.idx)
    /\ timers' = Tail(timers)
    /\ UNCHANGED <<variant, mounted, currentSlide, narrating, ui, navs>>

\* a /pregenerate-audio fetch settles: 2xx, non-2xx or network error
JobDone ==
    /\ UNCHANGED <<varsCache, varsConv, varsProv, varsStore, varsText, varsSearch, varsAudio>>
    /\ \E idx \in SlideIdx, ok \in BOOLEAN :
        /\ inflight[idx] > 0
        /\ lastEvent' = Event("job", idx, ok)
        /\ inflight' = [inflight EXCEPT ![idx] = @ - 1]
        /\ slides' = [slides EXCEPT ![idx] =
                        IF ok THEN MarkReady(@, [audioUrl |-> ReadyAudioUrl,
                                                 narration |-> ReadyNarration])
                        ELSE MarkFailed(@)]
    /\ UNCHANGED <<variant, mounted, currentSlide, timers, narrating, ui, navs>>

\* the play button
StartNarration ==
    /\ UNCHANGED <<varsCache, varsConv, varsProv, varsStore, varsText, varsSearch, varsAudio>>
    /\ lastEvent' = Event("play", currentSlide, TRUE)
    /\ mounted
    /\ navs < MaxNav
    /\ ui' = UiAfterStart(variant, ui, slides[currentSlide])
    /\ narrating' = NarratingAfterStart(variant, narrating, slides[currentSlide],
                                        currentSlide)
    /\ navs' = navs + 1
    /\ UNCHANGED <<variant, mounted, slides, currentSlide, timers, inflight>>

\* a /narrate fetch settles; a 2xx answer may carry audioUrl: null
NarrateDone ==
    /\ UNCHANGED <<varsCache, varsConv, varsProv, varsStore, varsText, varsSearch, varsAudio>>
    /\ \E idx \in SlideIdx, ok \in BOOLEAN, url \in {ReadyAudioUrl, Undef} :
        /\ narrating[idx] > 0
        /\ lastEvent' = Event("narrate", idx, ok)
        /\ narrating' = [narrating EXCEPT ![idx] = @ - 1]
        /\ ui' = IF ~ok THEN [ui EXCEPT !.isNarrating = FALSE]
                 ELSE IF variant = "effect"
                 THEN IF Truthy(url)
                      THEN [ui EXCEPT !.narrationText = ReadyNarration,
                                      !.audioUrl = url]
                      ELSE [ui EXCEPT !.narrationText = ReadyNarration,
                                      !.hideTimers = @ + 1]
                 ELSE [ui EXCEPT !.narrationText = ReadyNarration,
                                 !.audioUrl = IF Truthy(url) THEN url ELSE "null"]
    /\ UNCHANGED <<variant, mounted, slides, currentSlide, timers, inflight, navs>>

\* audio.onended / audio.onerror
AudioEnded ==
    /\ UNCHANGED <<varsCache, varsConv, varsProv, varsStore, varsText, varsSearch, varsAudio>>
    /\ lastEvent' = Event("ended", currentSlide, TRUE)
    /\ ui.isNarrating /\ Truthy(ui.audioUrl)
    /\ ui' = [ui EXCEPT !.isNarrating = FALSE]
    /\ UNCHANGED <<variant, mounted, slides, currentSlide, timers, inflight,
                   narrating, navs>>

\* the 3 s timer of a narration that came without audio
HideTimerFire ==
    /\ UNCHANGED <<varsCache, varsConv, varsProv, varsStore, varsText, varsSearch, varsAudio>>
    /\ lastEvent' = Event("hide", currentSlide, TRUE)
    /\ ui.hideTimers > 0
    /\ ui' = [ui EXCEPT !.isNarrating = FALSE, !.hideTimers = @ - 1]
    /\ UNCHANGED <<variant, mounted, slides, currentSlide, timers, inflight,
                   narrating, navs>>

ConstructedWalk ==
    /\ variant = "effect"
    /\ mounted = FALSE
    /\ slides = InitialSlides(BareFirstSlide)
    /\ currentSlide = 0
    /\ timers = <<>>
    /\ inflight = [i \in SlideIdx |-> 0]
    /\ narrating = [i \in SlideIdx |-> 0]
    /\ ui = InitialUi
    /\ navs = 0
    /\ lastEvent = Event("none", 0, TRUE)

-----------------------------------------------------------------------------
(* Conversation sessions: ConversationalAI and the /api/conversation routes *)
(* `conversations` maps a sessionId to a session object.  Objects have an   *)
(* identity: initializeSession stores a new object under the id, while a    *)
(* generateResponse call that is waiting for the provider keeps the object  *)
(* it fetched before.                                                       *)

MaxAsk == 2
MaxOps == 4
MaxObj == 2
MaxClock == 1

SessionIds == {"s1", "s2"}
\* JSON values of a request body field: the text of a message is a sequence of
\* characters, the text of a sessionId one of the ids
Whitespace == {" "}
JsValue(type, v) == [type |-> type, v |-> v]
Messages ==
    {JsValue("undefined", <<>>), JsValue("number", <<"5">>), JsValue("string", <<>>),
     JsValue("string", <<" ">>), JsValue("string", <<"h", "i">>)}
SessionIdInputs ==
    {JsValue("undefined", ""), JsValue("number", "7"), JsValue("string", "")}
        \cup {JsValue("string", sid) : sid \in SessionIds}
NoBodyFields == [slideContext |-> {<<"none", 0>>},
                 message |-> JsValue("undefined", <<>>),
                 sessionId |-> JsValue("undefined", "")]

\* String.prototype.trim().length === 0
IsBlank(chars) == \A i \in 1..Len(chars) : chars[i] \in Whitespace

\* !message || typeof message !== 'string' || message.trim().length === 0
InvalidMessage_NoTrim(message) ==
    \/ message.type = "undefined"
    \/ (message.type = "string" /\ message.v = <<>>)
    \/ message.type # "string"

InvalidMessage(message) ==
    \/ message.type = "undefined"
    \/ (message.type = "string" /\ message.v = <<>>)
    \/ message.type # "string"
    \/ IsBlank(message.v)

\* !sessionId || typeof sessionId !== 'string'
InvalidSessionId(sessionId) ==
    \/ sessionId.type = "undefined"
    \/ (sessionId.type = "string" /\ sessionId.v = "")
    \/ sessionId.type # "string"
Responses == {"r1"}

\* slide contexts sent by the client: sets of <<key, value>> pairs; NoContext
\* is a request without slideContext
Contexts == { {<<"slides", 1>>} }
NoContext == {<<"none", 0>>}
EmptyContext == {}

NoObj == 0
NoSession == [sessionId |-> "none", createdAt |-> 0, lastActive |-> 0,
              conversationHistory |-> <<>>, slideContext |-> EmptyContext,
              totalQuestions |-> 0]

NoPrompt == [userInput |-> <<>>, slideContext |-> EmptyContext, history |-> <<>>]
NoResult == [status |-> 0, code |-> "none", success |-> FALSE, audioUrl |-> Undef]

IdleAsk ==
    [pc |-> "idle", sid |-> "none", obj |-> NoObj, userInput |-> <<>>,
     prompt |-> NoPrompt, startEvt |-> 0, doneEvt |-> 0, result |-> NoResult,
     steps |-> <<>>]

\* log entry for a handled operation
Op(kind, sid, arg) == [kind |-> kind, sid |-> sid, arg |-> arg, body |-> NoBodyFields]

\* { ...a, ...b }: the keys of b replace those of a
MergeContext(a, b) == {p \in a : \A q \in b : q[1] # p[1]} \cup b

\* the object initializeSession builds (slideContext || {})
NewSession(sessionId, slideContext, t) ==
    [sessionId |-> sessionId, createdAt |-> t, lastActive |-> t,
     conversationHistory |-> <<>>,
     slideContext |-> IF slideContext = NoContext THEN EmptyContext ELSE slideContext,
     totalQuestions |-> 0]

\* updateSlideContext on an existing session object
WithContext(session, slideContext, t) ==
    [session EXCEPT !.slideContext = MergeContext(@, slideContext),
                    !.lastActive = t]

\* conversationHistory.slice(-3)
LastThree_All(history) == history

LastThree(history) ==
    IF Len(history) <= 3 THEN history
    ELSE SubSeq(history, Len(history) - 2, Len(history))

\* generatePrompt: what the prompt text is made from
generatePrompt(userInput, slideContext, conversationHistory) ==
    [userInput |-> userInput, slideContext |-> slideContext,
     history |-> LastThree(conversationHistory)]

\* conversationEntry; `ask` names the call that built it (not in the code)
Turn(t, userInput, response, audioUrl, ask) ==
    [timestamp |-> t, userInput |-> userInput, response |-> response,
     audioUrl |-> audioUrl, ask |-> ask]

\* session.conversationHistory.push(conversationEntry)
PushTurn_Front(history, entry) == <<entry>> \o history

PushTurn(history, entry) == Append(history, entry)

\* options.generateAudio !== false, as the route hands it to generateResponse;
\* the request's option is drawn where generateResponse reads it
AudioOptions == BOOLEAN

\* the stages generateResponse runs before it awaits the text provider; `steps`
\* records the stages a call has run (not in the code)
StagesBeforeText == <<"intent", "prompt">>

\* the stages generateResponse runs once generateText has resolved
StagesAfterText(generateAudio) ==
    <<"text">> \o (IF generateAudio THEN <<"speech">> ELSE <<>>)
               \o <<"ranking", "turn", "metrics">>

\* generateText rejected: the catch builds the failure result
StagesAfterTextFailed == <<"text_failed">>

\* textToSpeech(aiResponse) is called without an output path: path.dirname(null)
\* throws before any engine runs, the catch leaves audioUrl null
AskAudioUrl_Path(response) == "/uploads/audio/tts-0.mp3"

AskAudioUrl(response) == Undef

\* conversations.delete(sessionId)
AfterDelete_All(cs, sid) == [s \in SessionIds |-> NoObj]

AfterDelete(cs, sid) == [cs EXCEPT ![sid] = NoObj]

\* maxAgeHours * 60 * 60 * 1000
MsPerHour == 60 * 60 * 1000
DefaultMaxAgeHours == 24
DayMs == DefaultMaxAgeHours * MsPerHour

\* how far the clock moves in one step: a millisecond, or just over a day
ClockSteps == {1, DayMs + 1}

\* the number of clock steps that lead from 0 to time t
Ticks(t) == (t \div (DayMs + 1)) + (t % (DayMs + 1))

\* maxAgeHours of POST /cleanup (a body without it gets the default)
MaxAges == {0, DefaultMaxAgeHours}

\* cleanupOldSessions: session.lastActive.getTime() < cutoffTime
Expired_AtCutoff(session, t, maxAgeHours) ==
    session.lastActive <= t - maxAgeHours * MsPerHour

Expired(session, t, maxAgeHours) ==
    session.lastActive < t - maxAgeHours * MsPerHour

\* getSessionAnalytics: null for an unknown id, else the two counts it reports
getSessionAnalytics(cs, hp, sessionId) ==
    IF cs[sessionId] = NoObj THEN Undef
    ELSE [totalQuestions |-> hp[cs[sessionId]].totalQuestions,
          conversationLength |-> Len(hp[cs[sessionId]].conversationHistory)]

FreeObjs == {o \in 1..MaxObj : heap[o] = NoSession}
FreeAsks == {a \in 1..MaxAsk : asks[a].pc = "idle"}

Min(S) == CHOOSE x \in S : \A y \in S : x <= y

\* the answer of a route that touches no session
Reject(a, sid, userInput, status, code) ==
    [IdleAsk EXCEPT !.pc = "done", !.sid = sid, !.userInput = userInput,
                    !.startEvt = evt + 1, !.doneEvt = evt + 1,
                    !.result = [status |-> status, code |-> code, success |-> FALSE,
                               audioUrl |-> Undef]]

\* POST /chat up to `await aiProvider.generateText` inside generateResponse
ChatStart ==
    /\ UNCHANGED <<varsCache, varsWalk, varsProv, varsStore, varsText, varsSearch, varsAudio>>
    /\ FreeAsks # {}
    /\ ops < MaxOps
    /\ ops' = ops + 1
    /\ \E sessionId \in SessionIdInputs, message \in Messages,
          slideContext \in Contexts \cup {NoContext} :
        LET a == Min(FreeAsks)
            sid == IF sessionId.type = "string" THEN sessionId.v ELSE ""
        IN
        /\ lastOp' = [Op("chat", sid, 0) EXCEPT
                         !.body = [message |-> message, sessionId |-> sessionId,
                                   slideContext |-> slideContext]]
        /\ IF InvalidMessage(message) THEN
               /\ asks' = [asks EXCEPT ![a] = Reject(a, sid, <<>>, 400, "INVALID_MESSAGE")]
               /\ UNCHANGED <<conversations, heap>>
           ELSE IF InvalidSessionId(sessionId) THEN
               /\ asks' = [asks EXCEPT ![a] = Reject(a, sid, <<>>, 400, "INVALID_SESSION_ID")]
               /\ UNCHANGED <<conversations, heap>>
           ELSE
               LET had == conversations[sid] # NoObj
                   o == IF had THEN conversations[sid] ELSE Min(FreeObjs)
                   \* updateSlideContext, then get-or-create
                   s0 == IF had
                         THEN IF slideContext # NoContext
                              THEN WithContext(heap[o], slideContext, clock)
                              ELSE heap[o]
                         ELSE NewSession(sid, NoContext, clock)
                   s1 == [s0 EXCEPT !.lastActive = clock,
                                    !.totalQuestions = @ + 1]
               IN
               /\ had \/ FreeObjs # {}
               /\ heap' = [heap EXCEPT ![o] = s1]
               /\ conversations' = [conversations EXCEPT ![sid] = o]
               /\ asks' = [asks EXCEPT ![a] =
                     [IdleAsk EXCEPT !.pc = "text", !.sid = sid, !.obj = o,
                                     !.userInput = message.v,
                                     !.prompt = generatePrompt(message.v, s1.slideContext,
                                                               s1.conversationHistory),
                                     !.startEvt = evt + 1,
                                     !.steps = StagesBeforeText]]
    /\ evt' = evt + 1
    /\ UNCHANGED clock

\* generateText settles; on success the Turn is pushed onto the object the call
\* fetched at its start, and POST /chat answers
TextDone ==
    /\ UNCHANGED <<varsCache, varsWalk, varsProv, varsStore, varsText, varsSearch, varsAudio>>
    /\ \E a \in 1..MaxAsk, ok \in BOOLEAN, aiResponse \in Responses,
          generateAudio \in AudioOptions :
        /\ asks[a].pc = "text"
        /\ lastOp' = Op("answer", asks[a].sid, 0)
        /\ IF ok
           THEN /\ heap' = [heap EXCEPT ![asks[a].obj].conversationHistory =
                              PushTurn(@, Turn(clock, asks[a].userInput, aiResponse,
                                               AskAudioUrl(aiResponse), a))]
                /\ asks' = [asks EXCEPT ![a].pc = "done", ![a].doneEvt = evt + 1,
                              ![a].steps = @ \o StagesAfterText(generateAudio),
                              ![a].result = [status |-> 200, code |-> "none",
                                             success |-> TRUE,
                                             audioUrl |-> AskAudioUrl(aiResponse)]]
           ELSE /\ heap' = heap
                /\ asks' = [asks EXCEPT ![a].pc = "done", ![a].doneEvt = evt + 1,
                              ![a].steps = @ \o StagesAfterTextFailed,
                              ![a].result = [status |-> 500,
                                             code |-> "AI_GENERATION_FAILED",
                                             success |-> FALSE,
                                             audioUrl |-> Undef]]
    /\ evt' = evt + 1
    /\ UNCHANGED <<conversations, clock, ops>>

\* POST /session/init
InitSession ==
    /\ UNCHANGED <<varsCache, varsWalk, varsProv, varsStore, varsText, varsSearch, varsAudio>>
    /\ FreeObjs # {}
    /\ \E sid \in SessionIds, slideContext \in Contexts \cup {NoContext} :
        LET o == Min(FreeObjs) IN
        /\ heap' = [heap EXCEPT ![o] = NewSession(sid, slideContext, clock)]
        /\ conversations' = [conversations EXCEPT ![sid] = o]
        /\ lastOp' = Op("init", sid, 0)
    /\ ops < MaxOps
    /\ ops' = ops + 1
    /\ UNCHANGED <<asks, clock, evt>>

\* PUT /session/:sessionId/context
UpdateContext ==
    /\ UNCHANGED <<varsCache, varsWalk, varsProv, varsStore, varsText, varsSearch, varsAudio>>
    /\ \E sid \in SessionIds, slideContext \in Contexts :
        /\ conversations[sid] # NoObj
        /\ heap' = [heap EXCEPT ![conversations[sid]] =
                      WithContext(@, slideContext, clock)]
        /\ lastOp' = Op("context", sid, 0)
    /\ ops < MaxOps
    /\ ops' = ops + 1
    /\ UNCHANGED <<conversations, asks, clock, evt>>

\* DELETE /session/:sessionId
DeleteSession ==
    /\ UNCHANGED <<varsCache, varsWalk, varsProv, varsStore, varsText, varsSearch, varsAudio>>
    /\ \E sid \in SessionIds :
        /\ conversations[sid] # NoObj
        /\ conversations' = AfterDelete(conversations, sid)
        /\ lastOp' = Op("delete", sid, 0)
    /\ ops < MaxOps
    /\ ops' = ops + 1
    /\ UNCHANGED <<heap, asks, clock, evt>>

\* POST /cleanup: cleanupOldSessions(maxAgeHours), 24 when the body names none
Cleanup ==
    /\ UNCHANGED <<varsCache, varsWalk, varsProv, varsStore, varsText, varsSearch, varsAudio>>
    /\ \E maxAgeHours \in MaxAges :
        /\ conversations' =
              [sid \in SessionIds |->
                 IF /\ conversations[sid] # NoObj
                    /\ Expired(heap[conversations[sid]], clock, maxAgeHours)
                 THEN NoObj ELSE conversations[sid]]
        /\ lastOp' = Op("cleanup", "", maxAgeHours)
    /\ ops < MaxOps
    /\ ops' = ops + 1
    /\ UNCHANGED <<heap, asks, clock, evt>>

\* time passes: a millisecond, or just over a day
TickClock ==
    /\ UNCHANGED <<varsCache, varsWalk, varsProv, varsStore, varsText, varsSearch, varsAudio>>
    /\ \E d \in ClockSteps :
        /\ Ticks(clock + d) <= MaxClock
        /\ clock' = clock + d
    /\ UNCHANGED <<conversations, heap, asks, evt, lastOp, ops>>

ConstructedConv ==
    /\ conversations = [sid \in SessionIds |-> NoObj]
    /\ heap = [o \in 1..MaxObj |-> NoSession]
    /\ asks = [a \in 1..MaxAsk |-> IdleAsk]
    /\ clock = 0
    /\ evt = 0
    /\ lastOp = Op("none", "", 0)
    /\ ops = 0

-----------------------------------------------------------------------------
(* Text generation router (AIProviderService) and the POST /conversation/ask *)
(* handler of routes/ai.js, which calls it with a Gemini fallback and then   *)
(* synthesizes speech for the answer.  A provider call is a promise that the *)
(* other side settles, or never settles.                                     *)

MaxGen == 2

ProviderNames == {"groq", "gemini"}

\* names a client of POST /ai-providers/switch can send
SwitchNames == ProviderNames \cup {"other", "constructor", ""}

GenIds == 1 .. MaxGen

IdleGen ==
    [pc |-> "idle",        \* idle, primary, fallback, speech, done
     using |-> "none",     \* the provider the outstanding generateText call uses
     stalled |-> FALSE,    \* the outstanding call will never settle
     status |-> 0, hasText |-> FALSE, hasAudio |-> FALSE]

\* property names that every object literal inherits from Object.prototype
InheritedNames == {"constructor"}

\* `this.providers[providerName]` is truthy: the client of an own key, or a
\* member inherited from Object.prototype
HasProvider(avail, providerName) ==
    IF providerName \in DOMAIN avail THEN avail[providerName]
    ELSE providerName \in InheritedNames

\* setProvider: the active provider after the call
setProvider_Noop(cur, avail, providerName) == cur

setProvider(cur, avail, providerName) ==
    IF HasProvider(avail, providerName) THEN providerName ELSE cur

\* setProvider: the value it returns
setProviderReturns(avail, providerName) == HasProvider(avail, providerName)

\* generateText up to its await: throws when the current provider has no
\* client, and in the switch's default branch when the name is no provider's
CanGenerate(cur, avail) == cur \in DOMAIN avail /\ avail[cur]

\* what POST /ai-providers/switch answered
SwitchReply(provider, success, status) ==
    [provider |-> provider, success |-> success, status |-> status]
NoSwitchReply == SwitchReply("", FALSE, 0)

\* the catch of the primary call: setProvider('gemini'), then generateText again;
\* when that throws at once the handler answers 500
FallbackProvider(cur, avail) == setProvider(cur, avail, "gemini")

AfterPrimaryFailed(rec, cur, avail) ==
    LET cp == FallbackProvider(cur, avail) IN
    IF CanGenerate(cp, avail)
    THEN [rec EXCEPT !.pc = "fallback", !.using = cp]
    ELSE [rec EXCEPT !.pc = "done", !.using = "none", !.status = 500]

FreeGens == {g \in GenIds : gens[g].pc = "idle"}

\* POST /conversation/ask with a stored context, up to its first await
AskStart ==
    /\ UNCHANGED <<varsCache, varsWalk, varsConv, varsStore, varsText, varsSearch, varsAudio>>
    /\ UNCHANGED switchReply
    /\ FreeGens # {}
    /\ LET g == Min(FreeGens) IN
       IF CanGenerate(currentProvider, providers)
       THEN /\ gens' = [gens EXCEPT ![g] =
                          [IdleGen EXCEPT !.pc = "primary", !.using = currentProvider]]
            /\ UNCHANGED currentProvider
       ELSE /\ gens' = [gens EXCEPT ![g] =
                          AfterPrimaryFailed(IdleGen, currentProvider, providers)]
            /\ currentProvider' = FallbackProvider(currentProvider, providers)
    /\ UNCHANGED providers

\* the primary generateText call settles
PrimaryDone ==
    /\ UNCHANGED <<varsCache, varsWalk, varsConv, varsStore, varsText, varsSearch, varsAudio>>
    /\ UNCHANGED switchReply
    /\ \E g \in GenIds, ok \in BOOLEAN :
        /\ gens[g].pc = "primary"
        /\ ~gens[g].stalled
        /\ IF ok
           THEN /\ gens' = [gens EXCEPT ![g].pc = "speech", ![g].using = "none",
                                        ![g].hasText = TRUE]
                /\ UNCHANGED currentProvider
           ELSE /\ gens' = [gens EXCEPT ![g] =
                              AfterPrimaryFailed(@, currentProvider, providers)]
                /\ currentProvider' = FallbackProvider(currentProvider, providers)
    /\ UNCHANGED providers

\* the fallback generateText call settles; its failure is answered 500
FallbackDone ==
    /\ UNCHANGED <<varsCache, varsWalk, varsConv, varsStore, varsText, varsSearch, varsAudio>>
    /\ UNCHANGED switchReply
    /\ \E g \in GenIds, ok \in BOOLEAN :
        /\ gens[g].pc = "fallback"
        /\ ~gens[g].stalled
        /\ gens' = [gens EXCEPT ![g] =
              IF ok THEN [@ EXCEPT !.pc = "speech", !.using = "none", !.hasText = TRUE]
                    ELSE [@ EXCEPT !.pc = "done", !.using = "none", !.status = 500]]
    /\ UNCHANGED <<currentProvider, providers>>

\* textToSpeech(aiResponse, audioPath) settles; the handler answers 200 with the
\* audio URL when the file exists and with null otherwise
SpeechDone ==
    /\ UNCHANGED <<varsCache, varsWalk, varsConv, varsStore, varsText, varsSearch, varsAudio>>
    /\ UNCHANGED switchReply
    /\ \E g \in GenIds, ok \in BOOLEAN :
        /\ gens[g].pc = "speech"
        /\ ~gens[g].stalled
        /\ gens' = [gens EXCEPT ![g].pc = "done", ![g].status = 200,
                                ![g].hasAudio = ok]
    /\ UNCHANGED <<currentProvider, providers>>

\* the speech engine of an outstanding call stops answering: the `say` and
\* `afconvert` processes are started by exec without a timeout option, so the
\* promise of textToSpeech stays pending.  (The text providers are called
\* through fetch without an abort signal; only the runtime's own limits end
\* such a call, and the model lets those calls settle.)
ProviderStalls ==
    /\ UNCHANGED <<varsCache, varsWalk, varsConv, varsStore, varsText, varsSearch, varsAudio>>
    /\ UNCHANGED switchReply
    /\ \E g \in GenIds :
        /\ gens[g].pc = "speech"
        /\ ~gens[g].stalled
        /\ gens' = [gens EXCEPT ![g].stalled = TRUE]
    /\ UNCHANGED <<currentProvider, providers>>

\* POST /ai-providers/switch
SwitchProvider ==
    /\ UNCHANGED <<varsCache, varsWalk, varsConv, varsStore, varsText, varsSearch, varsAudio>>
    /\ \E provider \in SwitchNames :
        IF provider = ""
        THEN /\ switchReply' = SwitchReply(provider, FALSE, 400)
             /\ UNCHANGED currentProvider
        ELSE LET success == setProviderReturns(providers, provider) IN
             /\ currentProvider' = setProvider(currentProvider, providers, provider)
             /\ switchReply' = SwitchReply(provider, success,
                                           IF success THEN 200 ELSE 400)
    /\ UNCHANGED <<providers, gens>>

ConstructedProv ==
    /\ currentProvider = "groq"
    /\ providers = [p \in ProviderNames |-> FALSE]
    /\ gens = [g \in GenIds |-> IdleGen]
    /\ switchReply = NoSwitchReply

-----------------------------------------------------------------------------
(* The uploads folder, the presentation contexts and the two clean-up       *)
(* procedures: POST /api/cleanup (routes/ai.js) and cleanupOldCache          *)
(* (utils/cacheCleanup.js).  Generated audio is written to uploads/audio;   *)
(* cleanupOldCache reads uploads/audio-cache.                                *)

MaxStoreOps == 4
MaxFsTicks == 1

\* the directory TextToSpeechService writes to, and the one cleanupOldCache reads
AudioDir == "uploads/audio"
CacheDir == "uploads/audio-cache"
UploadsDir == "uploads"

AudioNames == {"slide-a_b-1.wav", "slide-a_b-2.wav"}
PresentationIds == {"p1"}

\* cleanupOldCache(maxDays = 30)
DefaultMaxDays == 30
SweepAges == {0, DefaultMaxDays}

\* maxDays * 24 * 60 * 60 * 1000; times of this part are counted in seconds
\* (the millisecond values of 30 days do not fit 32-bit integers)
SecPerDay == 24 * 60 * 60

\* how far the clock moves in one step: a second, or just over 30 days
FsSteps == {1, DefaultMaxDays * SecPerDay + 1}
FsTicks(t) == (t \div (DefaultMaxDays * SecPerDay + 1)) + (t % (DefaultMaxDays * SecPerDay + 1))

File(dir, name, mtime) == [dir |-> dir, name |-> name, mtime |-> mtime]

\* create or overwrite
PutFile(fs, dir, name, mtime) ==
    {f \in fs : ~(f.dir = dir /\ f.name = name)} \cup {File(dir, name, mtime)}

StoreOp(kind, arg, count) ==
    [kind |-> kind, arg |-> arg, count |-> count, n |-> lastStoreOp.n + 1]

\* the files cleanupOldCache unlinks: those of its directory with
\* stats.mtime.getTime() < cutoffTime
SweptFiles(fs, t, maxDays) ==
    {f \in fs : f.dir = CacheDir /\ f.mtime < t - maxDays * SecPerDay}

\* a speech engine has written an audio file (textToSpeechFile, outputDir)
WriteAudio ==
    /\ UNCHANGED <<varsCache, varsWalk, varsConv, varsProv, varsText, varsSearch, varsAudio>>
    /\ lastStoreOp.n < MaxStoreOps
    /\ \E name \in AudioNames :
        /\ files' = PutFile(files, AudioDir, name, fsNow)
        /\ lastStoreOp' = StoreOp("write", 0, 0)
    /\ UNCHANGED <<contexts, storing, fsNow>>

\* POST /conversation/store up to `await fs.promises.writeFile`
StoreContext ==
    /\ UNCHANGED <<varsCache, varsWalk, varsConv, varsProv, varsText, varsSearch, varsAudio>>
    /\ lastStoreOp.n < MaxStoreOps
    /\ \E presentationId \in PresentationIds :
        /\ contexts' = contexts \cup {presentationId}
        /\ storing' = storing \cup {presentationId}
        /\ lastStoreOp' = StoreOp("store", 0, 0)
    /\ UNCHANGED <<files, fsNow>>

\* the context file uploads/context-<id>.json has been written
ContextFileWritten ==
    /\ UNCHANGED <<varsCache, varsWalk, varsConv, varsProv, varsText, varsSearch, varsAudio>>
    /\ \E presentationId \in storing :
        /\ files' = PutFile(files, UploadsDir, presentationId, fsNow)
        /\ storing' = storing \ {presentationId}
    /\ UNCHANGED <<contexts, fsNow, lastStoreOp>>

\* POST /api/cleanup: unlinks every file under uploads/, clears the contexts and
\* answers with the number of files deleted
CleanupUploads ==
    /\ UNCHANGED <<varsCache, varsWalk, varsConv, varsProv, varsText, varsSearch, varsAudio>>
    /\ lastStoreOp.n < MaxStoreOps
    /\ files' = {}
    /\ contexts' = {}
    /\ lastStoreOp' = StoreOp("cleanup", 0, Cardinality(files))
    /\ UNCHANGED <<storing, fsNow>>

\* cleanupOldCache(maxDays)
SweepCache ==
    /\ UNCHANGED <<varsCache, varsWalk, varsConv, varsProv, varsText, varsSearch, varsAudio>>
    /\ lastStoreOp.n < MaxStoreOps
    /\ \E maxDays \in SweepAges :
        /\ files' = files \ SweptFiles(files, fsNow, maxDays)
        /\ lastStoreOp' = StoreOp("sweep", maxDays,
                                  Cardinality(SweptFiles(files, fsNow, maxDays)))
    /\ UNCHANGED <<contexts, storing, fsNow>>

\* time passes
TickFs ==
    /\ UNCHANGED <<varsCache, varsWalk, varsConv, varsProv, varsText, varsSearch, varsAudio>>
    /\ \E d \in FsSteps :
        /\ FsTicks(fsNow + d) <= MaxFsTicks
        /\ fsNow' = fsNow + d
    /\ UNCHANGED <<files, contexts, storing, lastStoreOp>>

ConstructedStore ==
    /\ files = {}
    /\ contexts = {}
    /\ storing = {}
    /\ fsNow = 0
    /\ lastStoreOp = [kind |-> "none", arg |-> 0, count |-> 0, n |-> 0]

-----------------------------------------------------------------------------
(* Intent detection: ConversationalAI.detectIntent                          *)
(* A string is a sequence of characters.  A pattern of intentPatterns is an *)
(* alternation of literals, either anchored at the start of the input       *)
(* (/^(a|b)/) or standing between two word boundaries (/\b(a|b)\b/); the /i *)
(* flag has no effect because the input is lower-cased first.               *)

MaxWords == 3

UpperCase == <<"A", "B", "C", "D", "E", "F", "G", "H", "I", "J", "K", "L", "M", "N", "O", "P", "Q", "R", "S", "T", "U", "V", "W", "X", "Y", "Z">>
LowerCase == <<"a", "b", "c", "d", "e", "f", "g", "h", "i", "j", "k", "l", "m", "n", "o", "p", "q", "r", "s", "t", "u", "v", "w", "x", "y", "z">>
Digits == {"0", "1", "2", "3", "4", "5", "6", "7", "8", "9"}

\* the characters \w stands for
WordChars == {UpperCase[i] : i \in 1..26} \cup {LowerCase[i] : i \in 1..26}
                \cup Digits \cup {"_"}

\* String.prototype.toLowerCase
toLowerCase(str) ==
    [i \in 1..Len(str) |->
        IF \E k \in 1..26 : UpperCase[k] = str[i]
        THEN LowerCase[CHOOSE k \in 1..26 : UpperCase[k] = str[i]]
        ELSE str[i]]

\* String.prototype.trim
trim(str) ==
    LET solid == {i \in 1..Len(str) : str[i] \notin Whitespace}
    IN IF solid = {} THEN <<>>
       ELSE SubSeq(str, CHOOSE i \in solid : \A j \in solid : i <= j,
                        CHOOSE i \in solid : \A j \in solid : i >= j)

\* the literal stands in str from position i on
LiteralAt(str, i, lit) ==
    /\ i + Len(lit) - 1 <= Len(str)
    /\ SubSeq(str, i, i + Len(lit) - 1) = lit

IsWordAt(str, i) == i \in 1..Len(str) /\ str[i] \in WordChars

\* \b holds between the characters i-1 and i
WordBoundary(str, i) == IsWordAt(str, i - 1) # IsWordAt(str, i)

intents ==
    [GREETING |-> "greeting", QUESTION |-> "question",
     CLARIFICATION |-> "clarification", SUMMARY |-> "summary",
     NAVIGATION |-> "navigation", FAREWELL |-> "farewell", UNKNOWN |-> "unknown"]

\* the entries of this.intentPatterns in the order Object.entries yields them
\* (the order the keys were written in)
intentPatterns ==
    << [intent |-> intents.GREETING, anchored |-> TRUE, alts |->
        <<<<"h", "i">>,
          <<"h", "e", "l", "l", "o">>,
          <<"h", "e", "y">>,
          <<"g", "o", "o", "d", " ", "m", "o", "r", "n", "i", "n", "g">>,
          <<"g", "o", "o", "d", " ", "a", "f", "t", "e", "r", "n", "o", "o", "n">>,
          <<"g", "o", "o", "d", " ", "e", "v", "e", "n", "i", "n", "g">>>>],
       [intent |-> intents.QUESTION, anchored |-> FALSE, alts |->
        <<<<"w", "h", "a", "t">>,
          <<"h", "o", "w">>,
          <<"w", "h", "y">>,
          <<"w", "h", "e", "n">>,
          <<"w", "h", "e", "r", "e">>,
          <<"w", "h", "o">>,
          <<"c", "a", "n", " ", "y", "o", "u">>,
          <<"c", "o", "u", "l", "d", " ", "y", "o", "u">>,
          <<"e", "x", "p", "l", "a", "i", "n">>,
          <<"t", "e", "l", "l", " ", "m", "e">>>>],
       [intent |-> intents.CLARIFICATION, anchored |-> FALSE, alts |->
        <<<<"c", "l", "a", "r", "i", "f", "y">>,
          <<"e", "x", "p", "l", "a", "i", "n", " ", "m", "o", "r", "e">>,
          <<"e", "l", "a", "b", "o", "r", "a", "t", "e">>,
          <<"c", "a", "n", " ", "y", "o", "u", " ", "r", "e", "p", "e", "a", "t">>,
          <<"w", "h", "a", "t", " ", "d", "o", " ", "y", "o", "u", " ", "m", "e", "a", "n">>>>],
       [intent |-> intents.SUMMARY, anchored |-> FALSE, alts |->
        <<<<"s", "u", "m", "m", "a", "r", "i", "z", "e">>,
          <<"s", "u", "m", "m", "a", "r", "y">>,
          <<"o", "v", "e", "r", "v", "i", "e", "w">>,
          <<"m", "a", "i", "n", " ", "p", "o", "i", "n", "t", "s">>,
          <<"k", "e", "y", " ", "t", "a", "k", "e", "a", "w", "a", "y", "s">>>>],
       [intent |-> intents.NAVIGATION, anchored |-> FALSE, alts |->
        <<<<"g", "o", " ", "t", "o">>,
          <<"s", "h", "o", "w", " ", "m", "e">>,
          <<"n", "a", "v", "i", "g", "a", "t", "e">>,
          <<"s", "l", "i", "d", "e">>,
          <<"p", "a", "g", "e">>,
          <<"n", "e", "x", "t">>,
          <<"p", "r", "e", "v", "i", "o", "u", "s">>>>],
       [intent |-> intents.FAREWELL, anchored |-> TRUE, alts |->
        <<<<"b", "y", "e">>,
          <<"g", "o", "o", "d", "b", "y", "e">>,
          <<"t", "h", "a", "n", "k", "s">>,
          <<"t", "h", "a", "n", "k", " ", "y", "o", "u">>,
          <<"t", "h", "a", "t", "'", "s", " ", "a", "l", "l">>,
          <<"e", "n", "d">>>>] >>

\* the entry of intentPatterns for an intent
PatternOf(intent) ==
    intentPatterns[CHOOSE k \in 1..Len(intentPatterns) :
                       intentPatterns[k].intent = intent]

\* alternative a of the pattern matches str from position i on
MatchesAt(str, i, pattern, a) ==
    /\ LiteralAt(str, i, pattern.alts[a])
    /\ IF pattern.anchored THEN i = 1
       ELSE /\ WordBoundary(str, i)
            /\ WordBoundary(str, i + Len(pattern.alts[a]))

MatchStarts(str, pattern) ==
    {i \in 1..Len(str) : \E a \in 1..Len(pattern.alts) : MatchesAt(str, i, pattern, a)}

\* pattern.test(str)
Test(pattern, str) == MatchStarts(str, pattern) # {}

\* str.match(pattern)[0].length: the leftmost match, and there the first
\* alternative that matches
FirstMatchLength(str, pattern) ==
    LET i == Min(MatchStarts(str, pattern))
        a == Min({b \in 1..Len(pattern.alts) : MatchesAt(str, i, pattern, b)})
    IN Len(pattern.alts[a])

\* a confidence is kept as an exact fraction
Fraction(num, den) == [num |-> num, den |-> den]
AtLeast(x, y) == x.num * y.den >= y.num * x.den

\* a confidence that ignores the match
calculateIntentConfidence_Fixed(input, pattern) == Fraction(7, 10)

\* Math.min(0.9, 0.5 + matches[0].length / input.length)
calculateIntentConfidence(input, pattern) ==
    IF ~Test(pattern, input) THEN Fraction(0, 1)
    ELSE LET m == FirstMatchLength(input, pattern)
             n == Len(input)
         IN Fraction(IF 5 * n + 10 * m < 9 * n THEN 5 * n + 10 * m ELSE 9 * n,
                     10 * n)

NoIntent == [intent |-> "none", confidence |-> Fraction(0, 1)]

detectIntent(userInput) ==
    LET cleanInput == toLowerCase(trim(userInput))
        hits == {k \in 1..Len(intentPatterns) : Test(intentPatterns[k], cleanInput)}
    IN IF cleanInput = <<>>
       THEN [intent |-> intents.UNKNOWN, confidence |-> Fraction(0, 1)]
       ELSE IF hits # {}
       THEN [intent |-> intentPatterns[Min(hits)].intent,
             confidence |-> calculateIntentConfidence(cleanInput,
                                                      intentPatterns[Min(hits)])]
       ELSE IF cleanInput[Len(cleanInput)] = "?"
       THEN [intent |-> intents.QUESTION, confidence |-> Fraction(7, 10)]
       ELSE [intent |-> intents.UNKNOWN, confidence |-> Fraction(3, 10)]

\* the words the inputs are built from
Vocabulary ==
    {<<"W", "h", "a", "t">>,
     <<"i", "s">>,
     <<"w", "i", "n", "d">>,
     <<"t", "h", "a", "n", "k", "s">>,
     <<"b", "y", "e">>,
     <<"e", "x", "p", "l", "a", "i", "n">>,
     <<"m", "o", "r", "e">>,
     <<"c", "l", "a", "r", "i", "f", "y">>,
     <<"e", "l", "a", "b", "o", "r", "a", "t", "e">>,
     <<"h", "e", "l", "l", "o">>}

RECURSIVE JoinWords(_)
JoinWords(ws) ==
    IF Len(ws) = 0 THEN <<>>
    ELSE IF Len(ws) = 1 THEN ws[1]
    ELSE ws[1] \o <<" ">> \o JoinWords(Tail(ws))

WordLists == UNION {[1..n -> Vocabulary] : n \in 1..MaxWords}

\* inputs written out in full
Scenarios == {<<"W", "h", "a", "t", " ", "i", "s", " ", "w", "i", "n", "d", " ", "e", "f", "f", "i", "c", "i", "e", "n", "c", "y", "?">>,
              <<>>, <<" ">>, <<"?">>}

UserInputs ==
    {lead \o JoinWords(ws) \o tail :
        lead \in {<<>>, <<" ">>}, ws \in WordLists, tail \in {<<>>, <<"?">>}}
      \cup Scenarios

\* generateResponse: const intentResult = this.detectIntent(userInput)
DetectIntent ==
    /\ UNCHANGED <<varsCache, varsWalk, varsConv, varsProv, varsStore, varsSearch, varsAudio>>
    /\ intentResult = NoIntent
    /\ intentResult' = detectIntent(intentInput)
    /\ UNCHANGED <<intentInput, rankInput, relevantSlides>>

-----------------------------------------------------------------------------
(* Slide ranking: ConversationalAI.findRelevantSlides                       *)
(* A field of a slide that is missing or empty is the empty string: both    *)
(* are falsy in `a || b`.                                                   *)

MaxRankSlides == 4

\* a || b on strings
StrOr(a, b) == IF a # <<>> THEN a ELSE b

\* str.split(/\s+/): the runs between whitespace, an empty run included where
\* the input starts or ends with whitespace
RECURSIVE SplitWs(_)
SplitWs(str) ==
    LET ws == {i \in 1..Len(str) : str[i] \in Whitespace}
    IN IF ws = {} THEN <<str>>
       ELSE LET i == Min(ws)
                after == {j \in i..Len(str) : str[j] \notin Whitespace}
            IN IF after = {} THEN <<SubSeq(str, 1, i - 1), <<>> >>
               ELSE <<SubSeq(str, 1, i - 1)>>
                        \o SplitWs(SubSeq(str, Min(after), Len(str)))

\* userInput.toLowerCase().split(/\s+/).filter(word => word.length > 3)
Keywords(userInput) ==
    SelectSeq(SplitWs(toLowerCase(userInput)), LAMBDA word : Len(word) > 3)

\* String.prototype.includes for a non-empty needle
Includes(str, needle) == \E i \in 1..Len(str) : LiteralAt(str, i, needle)

\* a score that counts a title match as 1
RelevanceScore_TitleWeightOne(keywords, slide) ==
    LET slideText == toLowerCase(StrOr(slide.content, StrOr(slide.text, slide.narration)))
        slideTitle == toLowerCase(slide.title)
        inText == {k \in 1..Len(keywords) : Includes(slideText, keywords[k])}
        inTitle == {k \in 1..Len(keywords) : Includes(slideTitle, keywords[k])}
    IN 2 * Cardinality(inText) + Cardinality(inTitle)

\* the relevanceScore the map callback computes for one slide
RelevanceScore(keywords, slide) ==
    LET slideText == toLowerCase(StrOr(slide.content, StrOr(slide.text, slide.narration)))
        slideTitle == toLowerCase(slide.title)
        inText == {k \in 1..Len(keywords) : Includes(slideText, keywords[k])}
        inTitle == {k \in 1..Len(keywords) : Includes(slideTitle, keywords[k])}
    IN 2 * Cardinality(inText) + 3 * Cardinality(inTitle)

\* a number as a template literal prints it
RECURSIVE Decimal(_)
Decimal(n) ==
    LET digit == <<"0", "1", "2", "3", "4", "5", "6", "7", "8", "9">>[(n % 10) + 1]
    IN IF n < 10 THEN <<digit>> ELSE Decimal(n \div 10) \o <<digit>>

\* title: slide.title || `Slide ${index + 1}`
RankEntry(keywords, slide, index) ==
    [slideIndex |-> index,
     title |-> StrOr(slide.title, <<"S", "l", "i", "d", "e", " ">> \o Decimal(index + 1)),
     relevanceScore |-> RelevanceScore(keywords, slide)]

\* one step of the stable sort with (a, b) => b.relevanceScore - a.relevanceScore:
\* an entry goes behind the entries that compare less than or equal to it
InsertByScore_BeforeTies(entry, sorted) ==
    LET k == Cardinality({i \in 1..Len(sorted) :
                             sorted[i].relevanceScore > entry.relevanceScore})
    IN SubSeq(sorted, 1, k) \o <<entry>> \o SubSeq(sorted, k + 1, Len(sorted))

InsertByScore(entry, sorted) ==
    LET k == Cardinality({i \in 1..Len(sorted) :
                             sorted[i].relevanceScore >= entry.relevanceScore})
    IN SubSeq(sorted, 1, k) \o <<entry>> \o SubSeq(sorted, k + 1, Len(sorted))

RECURSIVE SortByScore(_)
SortByScore(entries) ==
    IF entries = <<>> THEN <<>>
    ELSE InsertByScore(entries[Len(entries)],
                       SortByScore(SubSeq(entries, 1, Len(entries) - 1)))

\* .slice(0, 3)
TopThree(entries) == SubSeq(entries, 1, IF Len(entries) < 3 THEN Len(entries) ELSE 3)

findRelevantSlides(userInput, slideContext) ==
    IF slideContext.slides.type # "array" THEN <<>>
    ELSE LET list == slideContext.slides.v
             keywords == Keywords(userInput)
             mapped == [i \in 1..Len(list) |-> RankEntry(keywords, list[i], i - 1)]
         IN TopThree(SortByScore(SelectSeq(mapped,
                                           LAMBDA e : e.relevanceScore > 0)))

RankSlide(title, content, text, narration) ==
    [title |-> title, content |-> content, text |-> text, narration |-> narration]

\* slides as the routes store them: with narration only, with text, with
\* content, without a title, and one that mentions nothing asked for
SlideKinds ==
    {RankSlide(<<"W", "i", "n", "d">>, <<>>, <<>>, <<"w", "i", "n", "d", " ", "p", "o", "w", "e", "r">>),
     RankSlide(<<"P", "o", "w", "e", "r">>, <<>>, <<"W", "i", "n", "d", " ", "f", "a", "r", "m">>, <<"x">>),
     RankSlide(<<>>, <<"p", "o", "w", "e", "r">>, <<"w", "i", "n", "d">>, <<>>),
     RankSlide(<<"W", "i", "n", "d", "m", "i", "l", "l", " ", "p", "o", "w", "e", "r">>, <<>>, <<>>, <<>>),
     RankSlide(<<"S", "u", "n">>, <<>>, <<"s", "o", "l", "a", "r">>, <<>>),
     RankSlide(<<"T", "u", "r", "b", "i", "n", "e", " ", "b", "l", "a", "d", "e", "s">>, <<>>, <<"b", "l", "a", "d", "e", "s">>, <<>>)}

RankQueries ==
    {<<"w", "i", "n", "d", " ", "p", "o", "w", "e", "r">>,
     <<"W", "h", "a", "t", " ", "i", "s", " ", "w", "i", "n", "d", "?">>,
     <<" ", "P", "o", "w", "e", "r", " ", " ", "w", "i", "n", "d", " ">>,
     <<"i", "s", " ", "i", "t", " ", "o", "n">>,
     <<"w", "i", "n", "d", " ", "w", "i", "n", "d">>,
     <<"s", "o", "l", "a", "r">>,
     <<"w", "i", "n", "d", " ", "t", "u", "r", "b", "i", "n", "e", " ", "b", "l", "a", "d", "e", "s">>}

SlideLists == UNION {[1..n -> SlideKinds] : n \in 0..MaxRankSlides}

RankContexts ==
    {[slides |-> JsValue("array", list)] : list \in SlideLists}
      \cup {[slides |-> JsValue("undefined", <<>>)], [slides |-> JsValue("object", <<>>)]}

NoRankInput == [userInput |-> <<>>, slideContext |-> [slides |-> JsValue("undefined", <<>>)]]
RankInputs == [userInput : RankQueries, slideContext : RankContexts]

\* before the call (no entry the function makes has a negative index)
NoRanking == <<[slideIndex |-> -1, title |-> <<>>, relevanceScore |-> 0]>>

\* generateResponse: const relevantSlides = this.findRelevantSlides(userInput, ...)
FindRelevantSlides ==
    /\ UNCHANGED <<varsCache, varsWalk, varsConv, varsProv, varsStore, varsSearch, varsAudio>>
    /\ relevantSlides = NoRanking
    /\ relevantSlides' = findRelevantSlides(rankInput.userInput, rankInput.slideContext)
    /\ UNCHANGED <<intentInput, rankInput, intentResult>>

ConstructedText ==
    /\ intentInput = <<>>
    /\ rankInput = NoRankInput
    /\ intentResult = NoIntent
    /\ relevantSlides = NoRanking

-----------------------------------------------------------------------------
(* Search over an indexed presentation: SlideContextService                 *)
(* findRelevantSlides asks the text provider for a ranking and falls back   *)
(* to fallbackKeywordSearch.  imageAnalysisService.generateWithAI is not    *)
(* defined in this source tree, where the call throws a TypeError; the      *)
(* other answers are what a provider behind that name can give.             *)

MaxIndexed == 2

\* an entry of this.presentations: a slide with the context indexPresentation
\* gave it.  basic = TRUE is the slide of the catch branch, whose context has
\* only summary, keywords and topics.
IndexedSlide(pageNumber, basic, summary, rawContent, keywords, topics) ==
    [pageNumber |-> pageNumber, basic |-> basic, summary |-> summary,
     rawContent |-> rawContent, keywords |-> keywords, topics |-> topics]

IndexedKinds ==
    {[basic |-> FALSE, summary |-> <<"W", "i", "n", "d", " ", "p", "o", "w", "e", "r">>, rawContent |-> <<"P", "a", "g", "e", " ", "1">>,
      keywords |-> <<<<"w", "i", "n", "d">>>>, topics |-> <<<<"E", "n", "e", "r", "g", "y">>>>],
     [basic |-> FALSE, summary |-> <<"S", "o", "l", "a", "r">>, rawContent |-> <<"s", "u", "n">>,
      keywords |-> <<<<"s", "o", "l", "a", "r">>, <<"w", "i", "n", "d">>>>, topics |-> <<>>],
     [basic |-> TRUE, summary |-> <<"S", "l", "i", "d", "e">>, rawContent |-> <<>>,
      keywords |-> <<>>, topics |-> <<>>]}

IndexedLists ==
    UNION {{[i \in 1..n |->
                IndexedSlide(i, f[i].basic, f[i].summary, f[i].rawContent,
                             f[i].keywords, f[i].topics)] : f \in [1..n -> IndexedKinds]}
           : n \in 1..MaxIndexed}

UserQuestions == {<<"w", "i", "n", "d">>, <<"S", "o", "l", "a", "r", " ", "w", "i", "n", "d">>, <<" ", " ">>, <<"u", "n", "d", "e", "f", "i", "n", "e", "d", " ", "w", "h", "a", "t">>}

\* what `await imageAnalysisService.generateWithAI(searchPrompt)` gives:
\* an exception; text that is not JSON; JSON null; a JSON object without
\* relevantSlides; relevantSlides that is not an array; an array holding a
\* null; an array of {slideNumber, relevanceScore} (scores in tenths)
AiItem(slideNumber, tenths) == [slideNumber |-> slideNumber, relevanceScore |-> tenths]
AiAnswer(kind, items) == [kind |-> kind, items |-> items]
AiAnswers ==
    {AiAnswer(k, <<>>) : k \in {"throws", "text", "null", "object", "not_array",
                                "array_with_null"}}
      \cup {AiAnswer("array", <<>>),
            AiAnswer("array", <<AiItem(2, 5), AiItem(1, 9)>>),
            AiAnswer("array", <<AiItem(1, 9), AiItem(7, 9), AiItem(2, 9)>>)}

\* Array.prototype.join(sep)
RECURSIVE JoinWith(_, _)
JoinWith(strs, sep) ==
    IF Len(strs) = 0 THEN <<>>
    ELSE IF Len(strs) = 1 THEN strs[1]
    ELSE strs[1] \o sep \o JoinWith(Tail(strs), sep)

\* summary + ' ' + rawContent + ' ' + keywords.join(' ') + ' ' + topics.join(' '),
\* lower-cased; a missing rawContent prints as "undefined"
SearchContent(slide) ==
    toLowerCase(slide.summary \o <<" ">>
                  \o (IF slide.basic THEN <<"u", "n", "d", "e", "f", "i", "n", "e", "d">> ELSE slide.rawContent)
                  \o <<" ">> \o JoinWith(slide.keywords, <<" ">>)
                  \o <<" ">> \o JoinWith(slide.topics, <<" ">>))

\* String.prototype.includes, true for the empty needle
IncludesWord(str, word) == word = <<>> \/ Includes(str, word)

\* queryWords.reduce(...) / queryWords.length
SearchScore(slide, queryWords) ==
    Fraction(Cardinality({k \in 1..Len(queryWords) :
                             IncludesWord(SearchContent(slide), queryWords[k])}),
             Len(queryWords))

SearchEntry(pageNumber, score) == [pageNumber |-> pageNumber, score |-> score]

\* one step of the stable sort with (a, b) => b.score - a.score
InsertBySearchScore(entry, sorted) ==
    LET k == Cardinality({i \in 1..Len(sorted) : AtLeast(sorted[i].score, entry.score)})
    IN SubSeq(sorted, 1, k) \o <<entry>> \o SubSeq(sorted, k + 1, Len(sorted))

RECURSIVE SortBySearchScore(_)
SortBySearchScore(entries) ==
    IF entries = <<>> THEN <<>>
    ELSE InsertBySearchScore(entries[Len(entries)],
                             SortBySearchScore(SubSeq(entries, 1, Len(entries) - 1)))

SearchOutcome(kind, entries) == [kind |-> kind, relevantSlides |-> entries]
NoSearch == SearchOutcome("none", <<>>)

fallbackKeywordSearch(indexedSlides, userQuestion) ==
    LET queryWords == SplitWs(toLowerCase(userQuestion))
        ranked == [i \in 1..Len(indexedSlides) |->
                      SearchEntry(indexedSlides[i].pageNumber, SearchScore(indexedSlides[i], queryWords))]
    IN SearchOutcome("fallback",
          SortBySearchScore(SelectSeq(ranked, LAMBDA e : e.score.num > 0)))

\* a try block that takes every answer for an empty ranking
SearchTry_Unchecked(indexedSlides, answer) == [ok |-> TRUE, value |-> SearchOutcome("ai", <<>>)]

\* the try block of findRelevantSlides: building the prompt reads
\* context.questionsItAnswers.join of every slide, JSON.parse reads the answer,
\* and the ranking keeps the items whose slideNumber is a pageNumber
SearchTry(indexedSlides, answer) ==
    IF \/ \E i \in 1..Len(indexedSlides) : indexedSlides[i].basic
       \/ answer.kind # "array"
    THEN [ok |-> FALSE, value |-> NoSearch]
    ELSE LET found == SelectSeq(answer.items,
                         LAMBDA r : \E i \in 1..Len(indexedSlides) :
                                       indexedSlides[i].pageNumber = r.slideNumber)
             ranked == [i \in 1..Len(found) |->
                           SearchEntry(found[i].slideNumber,
                                       Fraction(found[i].relevanceScore, 10))]
         IN [ok |-> TRUE, value |-> SearchOutcome("ai", SortBySearchScore(ranked))]

\* SlideContextService.findRelevantSlides; kind "error" is a rejected promise
findIndexedSlides(indexed, indexedSlides, userQuestion, answer) ==
    IF ~indexed THEN SearchOutcome("error", <<>>)
    ELSE IF SearchTry(indexedSlides, answer).ok THEN SearchTry(indexedSlides, answer).value
    ELSE fallbackKeywordSearch(indexedSlides, userQuestion)

SearchInputs ==
    [indexed : BOOLEAN, slides : IndexedLists, userQuestion : UserQuestions,
     answer : AiAnswers]

NoSearchInput ==
    [indexed |-> FALSE, slides |-> <<>>, userQuestion |-> <<>>,
     answer |-> AiAnswer("throws", <<>>)]

\* one call of slideContextService.findRelevantSlides
SearchSlides ==
    /\ UNCHANGED <<varsCache, varsWalk, varsConv, varsProv, varsStore, varsText, varsAudio>>
    /\ searchResult = NoSearch
    /\ searchInput # NoSearchInput
    /\ searchResult' = findIndexedSlides(searchInput.indexed, searchInput.slides,
                                         searchInput.userQuestion, searchInput.answer)
    /\ UNCHANGED searchInput

ConstructedSearch ==
    /\ searchInput = NoSearchInput
    /\ searchResult = NoSearch

-----------------------------------------------------------------------------
(* Audio delivery: GET /uploads/audio/:filename                             *)
(* A header is a string of characters; the file is its sequence of bytes.   *)

MaxFileSize == 3

\* the result of parseInt on a string without a leading digit
NaN == -1

DigitSeq == <<"0", "1", "2", "3", "4", "5", "6", "7", "8", "9">>
IsDigit(c) == \E d \in 1..10 : DigitSeq[d] = c
DigitValue(c) == (CHOOSE d \in 1..10 : DigitSeq[d] = c) - 1

\* parseInt(str, 10) for a string without sign or leading blanks: the value of
\* the leading digits, NaN without one
RECURSIVE DigitsValue(_, _)
DigitsValue(str, acc) ==
    IF str = <<>> \/ ~IsDigit(Head(str)) THEN acc
    ELSE DigitsValue(Tail(str), 10 * acc + DigitValue(Head(str)))

parseInt(str) ==
    IF str = <<>> \/ ~IsDigit(Head(str)) THEN NaN ELSE DigitsValue(str, 0)

\* str.replace(/bytes=/, ""): the first occurrence is cut out
RemoveFirst(str, lit) ==
    LET at == {i \in 1..Len(str) : LiteralAt(str, i, lit)}
    IN IF at = {} THEN str
       ELSE SubSeq(str, 1, Min(at) - 1) \o SubSeq(str, Min(at) + Len(lit), Len(str))

\* str.split("-")
RECURSIVE SplitOn(_, _)
SplitOn(str, sep) ==
    LET at == {i \in 1..Len(str) : str[i] = sep}
    IN IF at = {} THEN <<str>>
       ELSE <<SubSeq(str, 1, Min(at) - 1)>>
                \o SplitOn(SubSeq(str, Min(at) + 1, Len(str)), sep)

\* the bytes of a file of the given size
FileBytes(fileSize) == [i \in 1..fileSize |-> (i * 7) % 256]

\* createReadStream throws (no byte is negative)
ReadThrows == <<-1>>

\* fs.createReadStream(audioPath, { start, end }): the bytes start..end that
\* the file has; it throws for a start that is not a number or lies behind end
ReadWindow(fileSize, start, end) ==
    IF start = NaN \/ end = NaN \/ start > end THEN ReadThrows
    ELSE SubSeq(FileBytes(fileSize), start + 1,
                IF end + 1 < fileSize THEN end + 1 ELSE fileSize)

NoHeader == <<"none">>
AudioResponse(status, contentRange, contentLength, acceptRanges, body) ==
    [status |-> status, contentRange |-> contentRange,
     contentLength |-> contentLength, acceptRanges |-> acceptRanges, body |-> body]
NoAudioResponse == AudioResponse(0, NoHeader, 0, NoHeader, <<>>)

\* `bytes ${start}-${end}/${fileSize}`; NaN prints as "NaN"
NumberText(n) == IF n = NaN THEN <<"N", "a", "N">> ELSE Decimal(n)
ContentRange(start, end, fileSize) ==
    <<"b", "y", "t", "e", "s", " ">> \o NumberText(start) \o <<"-">>
        \o NumberText(end) \o <<"/">> \o Decimal(fileSize)

\* a window that is one byte short
ServeRange_EndExclusive(fileSize, range) ==
    LET parts == SplitOn(RemoveFirst(range, <<"b", "y", "t", "e", "s", "=">>), "-")
        start == parseInt(parts[1])
        end == IF Len(parts) >= 2 /\ parts[2] # <<>> THEN parseInt(parts[2])
               ELSE fileSize - 1
    IN AudioResponse(206, ContentRange(start, end, fileSize), (end - start) + 1,
                     <<"b", "y", "t", "e", "s">>, ReadWindow(fileSize, start, end - 1))

\* the `if (range)` branch of the handler; a createReadStream that throws
\* leaves the request to the error handler (status 500)
ServeRange(fileSize, range) ==
    LET parts == SplitOn(RemoveFirst(range, <<"b", "y", "t", "e", "s", "=">>), "-")
        start == parseInt(parts[1])
        end == IF Len(parts) >= 2 /\ parts[2] # <<>> THEN parseInt(parts[2])
               ELSE fileSize - 1
        chunksize == IF start = NaN \/ end = NaN THEN NaN ELSE (end - start) + 1
    IN IF ReadWindow(fileSize, start, end) = ReadThrows
       THEN AudioResponse(500, NoHeader, 0, NoHeader, <<>>)
       ELSE AudioResponse(206, ContentRange(start, end, fileSize), chunksize,
                          <<"b", "y", "t", "e", "s">>, ReadWindow(fileSize, start, end))

\* app.get('/uploads/audio/:filename')
ServeAudio(exists, fileSize, range) ==
    IF ~exists THEN AudioResponse(404, NoHeader, 0, NoHeader, <<>>)
    ELSE IF range # NoHeader /\ range # <<>> THEN ServeRange(fileSize, range)
    ELSE AudioResponse(200, NoHeader, fileSize, <<"b", "y", "t", "e", "s">>,
                       FileBytes(fileSize))

\* the Range headers sent: bytes=a-b, bytes=a-, bytes=-b, bytes=-
RangeEnds == {<<>>} \cup {Decimal(n) : n \in 0..MaxFileSize}
RangeHeaders ==
    {<<"b", "y", "t", "e", "s", "=">> \o a \o <<"-">> \o b : a, b \in RangeEnds}
      \cup {NoHeader}

AudioRequest(exists, fileSize, range) ==
    [exists |-> exists, fileSize |-> fileSize, range |-> range]
NoAudioRequest == AudioRequest(FALSE, 0, NoHeader)

\* the 500-byte entry asked for bytes=0-99
RangeScenario ==
    AudioRequest(TRUE, 500, <<"b", "y", "t", "e", "s", "=", "0", "-", "9", "9">>)

AudioRequests ==
    {AudioRequest(e, s, r) : e \in BOOLEAN, s \in 1..MaxFileSize, r \in RangeHeaders}
      \cup {RangeScenario}

\* one GET /uploads/audio/:filename
GetAudio ==
    /\ UNCHANGED <<varsCache, varsWalk, varsConv, varsProv, varsStore, varsText, varsSearch>>
    /\ audioResponse = NoAudioResponse
    /\ audioRequest # NoAudioRequest
    /\ audioResponse' = ServeAudio(audioRequest.exists, audioRequest.fileSize,
                                   audioRequest.range)
    /\ UNCHANGED audioRequest

ConstructedAudio ==
    /\ audioRequest = NoAudioRequest
    /\ audioResponse = NoAudioResponse

-----------------------------------------------------------------------------
(* Specifications                                                           *)

InitCache ==
    /\ ConstructedProv
    /\ ConstructedStore
    /\ ConstructedSearch
    /\ ConstructedAudio
    /\ ConstructedText
    /\ ConstructedCache
    /\ genAI \in BOOLEAN
    /\ ConstructedWalk
    /\ ConstructedConv

NextCache ==
    \/ PregenerateAudio
    \/ Narrate
    \/ PreGenerateAudio
    \/ HashDone
    \/ NarrationDone
    \/ GoogleDone
    \/ WavSaved
    \/ SayDone
    \/ TickNow

SpecCache == InitCache /\ [][NextCache]_vars

InitWalk ==
    /\ ConstructedProv
    /\ ConstructedStore
    /\ ConstructedSearch
    /\ ConstructedAudio
    /\ ConstructedText
    /\ ConstructedCache
    /\ genAI = FALSE
    /\ ConstructedConv
    /\ variant \in Variants
    /\ mounted = FALSE
    /\ \E first \in FirstSlides : slides = InitialSlides(first)
    /\ currentSlide = 0
    /\ timers = <<>>
    /\ inflight = [i \in SlideIdx |-> 0]
    /\ narrating = [i \in SlideIdx |-> 0]
    /\ ui = InitialUi
    /\ navs = 0
    /\ lastEvent = Event("none", 0, TRUE)

NextWalk ==
    \/ Mount
    \/ NextSlide
    \/ NavigateToSlide
    \/ TimerFire
    \/ JobDone
    \/ StartNarration
    \/ NarrateDone
    \/ AudioEnded
    \/ HideTimerFire

SpecWalk == InitWalk /\ [][NextWalk]_vars

\* a fetch always settles: the server answers, or the browser ends the
\* connection with a network error
SpecWalkLive == SpecWalk /\ WF_vars(JobDone)

InitConv ==
    /\ ConstructedProv
    /\ ConstructedStore
    /\ ConstructedSearch
    /\ ConstructedAudio
    /\ ConstructedText
    /\ ConstructedCache
    /\ genAI = FALSE
    /\ ConstructedWalk
    /\ ConstructedConv

NextConv ==
    \/ ChatStart
    \/ TextDone
    \/ InitSession
    \/ UpdateContext
    \/ DeleteSession
    \/ Cleanup
    \/ TickClock

SpecConv == InitConv /\ [][NextConv]_vars

\* AI_PROVIDER names either provider; each API key is set or not
InitProv ==
    /\ ConstructedStore
    /\ ConstructedSearch
    /\ ConstructedAudio
    /\ ConstructedText
    /\ ConstructedCache
    /\ genAI = FALSE
    /\ ConstructedWalk
    /\ ConstructedConv
    /\ currentProvider \in ProviderNames
    /\ providers \in [ProviderNames -> BOOLEAN]
    /\ gens = [g \in GenIds |-> IdleGen]
    /\ switchReply = NoSwitchReply

NextProv ==
    \/ AskStart
    \/ PrimaryDone
    \/ FallbackDone
    \/ SpeechDone
    \/ ProviderStalls
    \/ SwitchProvider

SpecProv == InitProv /\ [][NextProv]_vars

\* every call that can settle does settle, and the handler then runs on
SpecProvLive ==
    /\ SpecProv
    /\ WF_vars(PrimaryDone)
    /\ WF_vars(FallbackDone)
    /\ WF_vars(SpeechDone)

InitStore ==
    /\ ConstructedProv
    /\ ConstructedStore
    /\ ConstructedSearch
    /\ ConstructedAudio
    /\ ConstructedText
    /\ ConstructedCache
    /\ genAI = FALSE
    /\ ConstructedWalk
    /\ ConstructedConv

NextStore ==
    \/ WriteAudio
    \/ StoreContext
    \/ ContextFileWritten
    \/ InitSession
    \/ CleanupUploads
    \/ SweepCache
    \/ TickFs

SpecStore == InitStore /\ [][NextStore]_vars

InitIntent ==
    /\ ConstructedProv
    /\ ConstructedStore
    /\ ConstructedSearch
    /\ ConstructedAudio
    /\ ConstructedCache
    /\ genAI = FALSE
    /\ ConstructedWalk
    /\ ConstructedConv
    /\ intentInput \in UserInputs
    /\ rankInput = NoRankInput
    /\ intentResult = NoIntent
    /\ relevantSlides = NoRanking

NextIntent == DetectIntent

SpecIntent == InitIntent /\ [][NextIntent]_vars

InitRank ==
    /\ ConstructedProv
    /\ ConstructedStore
    /\ ConstructedSearch
    /\ ConstructedAudio
    /\ ConstructedCache
    /\ genAI = FALSE
    /\ ConstructedWalk
    /\ ConstructedConv
    /\ intentInput = <<>>
    /\ rankInput \in RankInputs
    /\ intentResult = NoIntent
    /\ relevantSlides = NoRanking

NextRank == FindRelevantSlides

SpecRank == InitRank /\ [][NextRank]_vars

InitSearch ==
    /\ ConstructedProv
    /\ ConstructedStore
    /\ ConstructedText
    /\ ConstructedAudio
    /\ ConstructedCache
    /\ genAI = FALSE
    /\ ConstructedWalk
    /\ ConstructedConv
    /\ searchInput \in SearchInputs
    /\ searchResult = NoSearch

NextSearch == SearchSlides

SpecSearch == InitSearch /\ [][NextSearch]_vars

InitAudio ==
    /\ ConstructedProv
    /\ ConstructedStore
    /\ ConstructedText
    /\ ConstructedSearch
    /\ ConstructedCache
    /\ genAI = FALSE
    /\ ConstructedWalk
    /\ ConstructedConv
    /\ audioRequest \in AudioRequests
    /\ audioResponse = NoAudioResponse

NextAudio == GetAudio

SpecAudio == InitAudio /\ [][NextAudio]_vars

\* a server on which session "s1" already holds MaxEarlier Turns of earlier
\* chats (ask 0 stands for the calls that built them)
MaxEarlier == 3
EarlierTexts == <<"a", "b", "c", "d", "e", "f">>
EarlierTurns == [i \in 1..MaxEarlier |-> Turn(0, <<EarlierTexts[i]>>, "r1", Undef, 0)]

InitConvLong ==
    /\ ConstructedProv
    /\ ConstructedStore
    /\ ConstructedSearch
    /\ ConstructedAudio
    /\ ConstructedText
    /\ ConstructedCache
    /\ genAI = FALSE
    /\ ConstructedWalk
    /\ conversations = [sid \in SessionIds |-> IF sid = "s1" THEN 1 ELSE NoObj]
    /\ heap = [o \in 1..MaxObj |->
                 IF o = 1
                 THEN [NewSession("s1", NoContext, 0) EXCEPT
                          !.conversationHistory = EarlierTurns,
                          !.totalQuestions = MaxEarlier]
                 ELSE NoSession]
    /\ asks = [a \in 1..MaxAsk |-> IdleAsk]
    /\ clock = 0
    /\ evt = 0
    /\ lastOp = Op("none", "", 0)
    /\ ops = 0

SpecConvLong == InitConvLong /\ [][NextConv]_vars

-----------------------------------------------------------------------------
(* Claims about the backend audio cache (checked under SpecCache)           *)

\* a narration or speech generation of this request is under way
Generating(rec) == rec.pc \in {"narrating", "google", "saving", "say"}

\* two request bodies describe the same slide of the same deck
SameSlide(b1, b2) ==
    b1.pptName = b2.pptName /\ b1.pageNumber = b2.pageNumber /\ b1.id = b2.id

\* C1: for every cache key, at most one generation started by
\* POST /pregenerate-audio or by the upload-time preGenerateAudio is in flight
\* at a time.
C1_AtMostOneGenerationPerKey ==
    \A r1, r2 \in DOMAIN req :
        ( /\ r1 # r2
          /\ req[r1].kind \in {"pregen", "upload"}
          /\ req[r2].kind \in {"pregen", "upload"}
          /\ req[r1].key = req[r2].key
          /\ Generating(req[r1]) )
        => ~Generating(req[r2])

\* C2: a POST /pregenerate-audio and a POST /narrate for the same slide never
\* both invoke the speech service: between them at most one of the two calls
\* textToSpeechFile.
C2_PregenAndNarrateShareOneSpeechCall ==
    \A r1, r2 \in DOMAIN req :
        ( /\ req[r1].kind = "pregen"
          /\ req[r2].kind = "narrate"
          /\ SameSlide(req[r1].body, req[r2].body) )
        => ~(req[r1].ttsCalls >= 1 /\ req[r2].ttsCalls >= 1)

\* C3: a POST /pregenerate-audio that repeats an identical request which had
\* completed successfully makes no narration and no speech call and answers
\* with the same audioUrl, whichever speech engine produced the first audio.
C3_ResubmitIsServedFromCache ==
    \A q, r \in DOMAIN req :
        ( /\ req[q].kind = "pregen" /\ req[r].kind = "pregen"
          /\ q < r
          /\ req[q].body = req[r].body
          /\ req[q].pc = "done" /\ req[q].resp.status = 200
          /\ req[r].afterReady )
        => /\ req[r].genCalls = 0
           /\ req[r].ttsCalls = 0
           /\ req[r].pc = "done" => req[r].resp.audioUrl = req[q].resp.audioUrl

\* the request body carries a READY pre-generated record: audio and narration
CarriesReadyRecord(body) ==
    /\ body.preGeneratedAudio # NoUrl
    /\ body.preGeneratedNarration # Undef
    /\ body.preGeneratedNarration # ""

\* C8: POST /narrate with a READY record answers with exactly that record and
\* calls no narration or speech provider; without one it has invoked the speech
\* service (and, for an image slide, the narration service) before it answers.
C8_NarrateServesReadyRecord ==
    \A r \in DOMAIN req :
        req[r].kind = "narrate" =>
            IF CarriesReadyRecord(req[r].body)
            THEN /\ req[r].pc = "done"
                 /\ req[r].resp = [status |-> 200,
                                   audioUrl |-> req[r].body.preGeneratedAudio,
                                   narration |-> req[r].body.preGeneratedNarration]
                 /\ req[r].genCalls = 0 /\ req[r].ttsCalls = 0
            ELSE req[r].pc = "done" =>
                    /\ req[r].ttsCalls >= 1
                    /\ req[r].body.hasImage => req[r].genCalls = 1
                    /\ req[r].resp.status = 200

\* C8 witness: one /narrate was served from its READY record and another,
\* without a record, was answered with freshly generated audio
C8_Witness ==
    \E r1, r2 \in DOMAIN req :
        /\ req[r1].kind = "narrate" /\ req[r2].kind = "narrate"
        /\ req[r1].pc = "done" /\ req[r2].pc = "done"
        /\ CarriesReadyRecord(req[r1].body)
        /\ ~CarriesReadyRecord(req[r2].body)
        /\ req[r2].resp.audioUrl # NoUrl

-----------------------------------------------------------------------------
(* Claims about the walkthrough scheduler (checked under SpecWalk)          *)

\* the slide's record says a job is running or has delivered
GeneratingOrReady(s) ==
    \/ s.audioStatus \in {"generating", "ready"}
    \/ Truthy(s.preGeneratedAudio)

\* C4: in every interleaving of navigations, delayed LOW timers and job
\* completions, no /pregenerate-audio request is issued for a slide that is
\* GENERATING or READY at that moment.
C4_NoRequestWhileGeneratingOrReady ==
    [][\A k \in SlideIdx :
         inflight'[k] > inflight[k] => ~GeneratingOrReady(slides[k])]_vars

\* C5: a slide's status never goes from READY or FAILED back to GENERATING or
\* PENDING, and never from GENERATING back to PENDING.
C5_StatusMovesForwardOnly ==
    [][\A k \in SlideIdx :
         /\ slides[k].audioStatus \in {"ready", "failed"}
              => slides'[k].audioStatus \notin {"generating", "pending"}
         /\ slides[k].audioStatus = "generating"
              => slides'[k].audioStatus # "pending"]_vars

\* C6: whenever the page advances to slide i, the job for slide i+1 is issued
\* in the same step if i+1 is within bounds (unless that slide is already
\* GENERATING or READY), and a delayed job for slide i+2 is scheduled if i+2
\* is within bounds.
C6_AdvanceIssuesHighThenLow ==
    [][currentSlide' # currentSlide =>
        LET i == currentSlide' IN
        /\ (i + 1 < NumSlides /\ ~GeneratingOrReady(slides[i + 1]))
              => /\ inflight'[i + 1] = inflight[i + 1] + 1
                 /\ slides'[i + 1].audioStatus = "generating"
        /\ i + 2 < NumSlides
              => /\ Len(timers') = Len(timers) + 1
                 /\ timers'[Len(timers')].idx = i + 2]_vars

\* C7: when a background /pregenerate-audio request fails, the slide's status
\* becomes FAILED and nothing the user sees changes; when the narration is
\* started for a slide without a pre-generated record (on showing the slide in
\* the useEffect version, on the play button in both), POST /narrate is sent.
C7_FailureIsSilentAndNarrationFallsBack ==
    [][/\ (lastEvent'.kind = "job" /\ ~lastEvent'.ok)
            => /\ slides'[lastEvent'.idx].audioStatus = "failed"
               /\ ui' = ui
       /\ (\/ lastEvent'.kind = "play"
           \/ variant = "effect" /\ lastEvent'.kind \in {"mount", "next"})
            => (~Truthy(slides[currentSlide'].preGeneratedAudio)
                  => narrating'[currentSlide'] = narrating[currentSlide'] + 1)]_vars

\* a job failed for the slide now shown and its narration is being fetched
C7_Witness ==
    /\ slides[currentSlide].audioStatus = "failed"
    /\ narrating[currentSlide] > 0
    /\ ~Truthy(slides[currentSlide].preGeneratedAudio)

-----------------------------------------------------------------------------
(* Claims about conversation sessions (checked under SpecConv)              *)

AskIds == 1 .. MaxAsk

\* the call got past validation and worked on a session object
Started(a) == asks[a].pc \in {"text", "done"} /\ asks[a].obj # NoObj

Succeeded(a) == asks[a].pc = "done" /\ asks[a].result.success

\* calls a and b worked on the same session object
SameSession(a, b) ==
    /\ a # b /\ Started(a) /\ Started(b)
    /\ asks[a].sid = asks[b].sid /\ asks[a].obj = asks[b].obj

\* position of a call's Turn in its session's history (0 = none)
TurnPos(a) ==
    LET h == heap[asks[a].obj].conversationHistory IN
    IF \E i \in DOMAIN h : h[i].ask = a
    THEN CHOOSE i \in DOMAIN h : h[i].ask = a ELSE 0

TurnOf(a) == heap[asks[a].obj].conversationHistory[TurnPos(a)]

InPrompt(a, b) ==
    \E i \in DOMAIN asks[b].prompt.history : asks[b].prompt.history[i].ask = a

\* C9: when two asks on one session overlap, the one started later has a prompt
\* built from a history that contains the earlier one's Turn, and the Turns
\* are appended in the order in which the calls were started.
C9_OverlappingAsksAreSerialized ==
    \A a, b \in AskIds :
        (/\ SameSession(a, b)
         /\ asks[a].startEvt < asks[b].startEvt
         /\ Succeeded(a))
        => /\ InPrompt(a, b)
           /\ Succeeded(b) => TurnPos(a) < TurnPos(b)

\* b was sent after a had returned, both on the same session object
Sequential(a, b) ==
    /\ SameSession(a, b)
    /\ Succeeded(a) /\ Succeeded(b)
    /\ asks[a].doneEvt < asks[b].startEvt

HistoryOf(cs, hp, sid) ==
    IF cs[sid] = NoObj THEN <<>> ELSE hp[cs[sid]].conversationHistory

IsPrefix(h1, h2) ==
    /\ Len(h1) <= Len(h2)
    /\ SubSeq(h2, 1, Len(h1)) = h1

\* C11: while a session is live, the history stored under its sessionId only
\* grows at the end: across init, context update and ask operations every Turn
\* once appended stays at its position (no shrinking, reset or reordering).
C11_HistoryIsAppendOnly ==
    [][\A sid \in SessionIds :
         (conversations[sid] # NoObj /\ conversations'[sid] # NoObj)
         => IsPrefix(HistoryOf(conversations, heap, sid),
                     HistoryOf(conversations', heap', sid))]_vars

\* the step handles a request of this kind (or, for "answer", a provider reply)
Handles(kind) ==
    /\ lastOp'.kind = kind
    /\ (ops' # ops \/ evt' # evt)

Live(cs, sid) == cs[sid] # NoObj

\* C12: a sessionId is UNINITIALIZED until an explicit init or a first ask makes
\* it ACTIVE (with last activity = now); every context update refreshes the last
\* activity; cleanupOldSessions(maxAgeHours) removes a live session exactly when
\* its last activity is older than now - maxAgeHours, so a session touched
\* within the TTL is never removed by it; nothing but cleanup or an explicit
\* delete ends a session.
C12_SessionLifecycle ==
    [][\A sid \in SessionIds :
         /\ (~Live(conversations, sid) /\ Live(conversations', sid))
            => /\ Handles("init") \/ Handles("chat")
               /\ lastOp'.sid = sid
               /\ heap'[conversations'[sid]].lastActive = clock
               /\ heap'[conversations'[sid]].conversationHistory = <<>>
         /\ ((Handles("init") \/ Handles("context")) /\ lastOp'.sid = sid)
            => /\ Live(conversations', sid)
               /\ heap'[conversations'[sid]].lastActive = clock
         /\ (Live(conversations, sid) /\ ~Live(conversations', sid))
            => \/ Handles("delete") /\ lastOp'.sid = sid
               \/ Handles("cleanup")
         /\ (Handles("cleanup") /\ Live(conversations, sid))
            => /\ ~Live(conversations', sid)
                    <=> heap[conversations[sid]].lastActive
                          < clock - lastOp'.arg * MsPerHour
               /\ Live(conversations', sid)
                    => conversations'[sid] = conversations[sid]
       ]_vars

\* a cleanup with the default TTL has just removed a session idle for more than
\* a day and kept one that was active within the day
C12_Witness ==
    /\ lastOp = Op("cleanup", "", DefaultMaxAgeHours)
    /\ \E gone, kept \in SessionIds, o \in 1..MaxObj :
        /\ ~Live(conversations, gone)
        /\ heap[o].sessionId = gone
        /\ heap[o].lastActive < clock - DayMs
        /\ Live(conversations, kept)
        /\ heap[conversations[kept]].lastActive >= clock - DayMs

\* the kinds of operation that name one session
SessionOps == {"init", "context", "chat", "answer", "delete"}

\* C13: an init, context update, ask (its start and its completion) or delete
\* on session A leaves every other session B as it was: B stays stored under
\* its id and its history, slide context, metrics and timestamps are unchanged.
C13_OtherSessionsUntouched ==
    [][\A kind \in SessionOps, B \in SessionIds :
         (Handles(kind) /\ lastOp'.sid # B)
         => /\ conversations'[B] = conversations[B]
            /\ Live(conversations, B)
                 => heap'[conversations[B]] = heap[conversations[B]]
       ]_vars

\* a session with a stored Turn and a slide context is live right after
\* another session was deleted
C13_Witness ==
    \E A, B \in SessionIds :
        /\ A # B
        /\ lastOp = Op("delete", A, 0)
        /\ ~Live(conversations, A)
        /\ Live(conversations, B)
        /\ Len(heap[conversations[B]].conversationHistory) > 0
        /\ heap[conversations[B]].slideContext # EmptyContext

\* the body of the chat request names a usable message and sessionId
MalformedChat(body) ==
    \/ body.message.type # "string"
    \/ \A i \in 1..Len(body.message.v) : body.message.v[i] = " "
    \/ body.sessionId.type # "string"

\* C20: a POST /conversation/chat whose message is missing, not a string or blank,
\* or whose sessionId is missing or not a string, is answered 4xx with a
\* machine-readable code, and no session is created or modified.
C20_MalformedChatIsRejectedWithoutEffect ==
    [][(Handles("chat") /\ MalformedChat(lastOp'.body))
       => /\ conversations' = conversations
          /\ heap' = heap
          /\ \E a \in AskIds :
               /\ asks[a].pc = "idle"
               /\ asks'[a].pc = "done"
               /\ asks'[a].result.status \in 400..499
               /\ asks'[a].result.code \in {"INVALID_MESSAGE", "INVALID_SESSION_ID"}
               /\ ~asks'[a].result.success
      ]_vars

\* a blank message sent with the id of a live session has just been rejected
C20_Witness ==
    /\ lastOp.kind = "chat"
    /\ lastOp.body.message = JsValue("string", <<" ">>)
    /\ lastOp.body.sessionId.type = "string"
    /\ lastOp.sid \in SessionIds
    /\ Live(conversations, lastOp.sid)
    /\ \E a \in AskIds : asks[a].pc = "done" /\ asks[a].result.code = "INVALID_MESSAGE"

C15_SpeechNeverRejects ==
    \A r \in DOMAIN req :
        (req[r].pc = "done" /\ req[r].engines # <<>>)
        => req[r].resp.audioUrl # NoUrl

\* C16: when every provider of the narration generator fails, the generation
\* fails with an error and no text is made up: a request that has been through
\* generateSlideNarration goes on only with a text that a provider produced.
C16_NoFabricatedNarration ==
    \A r \in DOMAIN req :
        (/\ req[r].genCalls > 0
         /\ req[r].phase = "main"
         /\ req[r].pc \notin {"idle", "hashing", "narrating"})
        => \/ req[r].narration \in NarrationTexts
           \/ req[r].pc = "done" /\ req[r].resp.status >= 400

\* C17: a generation request leaves the router's active provider as it found
\* it, also when it is served by the fallback; only an explicit switch
\* (a step that touches no request) changes the active provider.
C17_GenerationLeavesProviderUnchanged ==
    [][gens' # gens => currentProvider' = currentProvider]_vars

\* C18: every provider call is bounded in time, so every request that has
\* started a provider call is eventually answered.
C18_EveryRequestIsAnswered ==
    \A g \in GenIds : (gens[g].pc # "idle") ~> (gens[g].pc = "done")

\* the request was answered from the audio cache on disk, with no provider call
ServedFromDisk(q) ==
    /\ req[q].kind \in {"pregen", "upload"}
    /\ req[q].pc = "done"
    /\ req[q].resp.status = 200
    /\ req[q].resp.audioUrl # NoUrl
    /\ req[q].body.preGeneratedAudio = NoUrl
    /\ req[q].ttsCalls = 0

\* requests r and q are for slides of the same source file
SameSource(r, q) ==
    /\ req[r].body.pptName = req[q].body.pptName
    /\ req[r].body.content = req[q].body.content

\* C21: the audio cache key is fixed by the content of the source file (and
\* the narration text), so a request answered from the cache is answered with
\* audio that was generated for a slide of the same source file, never with the
\* audio of another file, however similar its name and page number.
C21_CachedAudioBelongsToSameSource ==
    \A r, q \in DOMAIN req :
        (/\ ServedFromDisk(q)
         /\ req[r].kind = req[q].kind
         /\ req[r].ttsCalls > 0
         /\ req[q].resp.audioUrl = Url(req[r].key, "wav"))
        => SameSource(r, q)

\* C22: processing a file whose content is identical to a file processed before
\* (both hashed successfully) makes no narration and no speech call and gives
\* its pre-generated slide the audio URL and the narration of the first run.
C22_ReuploadReusesAudio ==
    \A q, r \in DOMAIN req :
        ( /\ req[q].kind = "upload" /\ req[r].kind = "upload"
          /\ q < r
          /\ req[q].body = req[r].body
          /\ req[q].pc = "done" /\ req[q].resp.audioUrl # NoUrl
          /\ req[q].key = UploadAudioFilename(req[q].body, TRUE)
          /\ req[r].afterReady
          /\ req[r].pc = "done"
          /\ req[r].key = UploadAudioFilename(req[r].body, TRUE) )
        => /\ req[r].genCalls = 0
           /\ req[r].ttsCalls = 0
           /\ req[r].resp.audioUrl = req[q].resp.audioUrl
           /\ req[r].resp.narration = req[q].resp.narration

\* the step handles a storage operation of this kind
Stores(kind) ==
    /\ lastStoreOp'.n # lastStoreOp.n
    /\ lastStoreOp'.kind = kind

\* C23: a cache sweep removes exactly the generated audio files whose last-write
\* time is older than the TTL: every such file is gone after the sweep, every
\* younger file and every other file is still there.
C23_SweepRemovesExactlyExpiredAudio ==
    [][Stores("sweep")
       => files' = {f \in files :
                      ~(f.dir = AudioDir
                        /\ f.mtime < fsNow - lastStoreOp'.arg * SecPerDay)}
      ]_vars

\* C24: when POST /cleanup has answered, no cached audio file, no stored
\* presentation context and no conversation session remains, and the answer
\* carries the number of items removed.
C24_CleanupLeavesNothing ==
    [][Stores("cleanup")
       => /\ \A f \in files' : f.dir # AudioDir
          /\ contexts' = {}
          /\ \A sid \in SessionIds : ~Live(conversations', sid)
          /\ lastStoreOp'.count >= Cardinality(files)
      ]_vars

-----------------------------------------------------------------------------
(* Claims about abandoned background jobs (checked under SpecWalkLive)      *)

-----------------------------------------------------------------------------
(* Claims about session analytics (checked under SpecConv)                  *)

\* no generateResponse call of the session is waiting for the provider
Settled(sid) == \A a \in AskIds : ~(asks[a].pc = "text" /\ asks[a].sid = sid)

\* C26: for every session, once its asks have been answered (successfully or
\* not), the totalQuestions reported by getSessionAnalytics equals the
\* conversationLength it reports (the number of Turns in the history).
C26_QuestionCountEqualsTurns ==
    \A sid \in SessionIds :
        (Live(conversations, sid) /\ Settled(sid))
          => LET an == getSessionAnalytics(conversations, heap, sid)
             IN an.totalQuestions = an.conversationLength

-----------------------------------------------------------------------------
(* Claims about intent detection (checked under SpecIntent)                 *)

\* the input as the patterns see it
CleanInput == toLowerCase(trim(intentInput))

\* the input starts with one of the tokens of the pattern
StartsWithToken(intent) ==
    \E a \in 1..Len(PatternOf(intent).alts) :
        LiteralAt(CleanInput, 1, PatternOf(intent).alts[a])

\* C27: the patterns are tried in a fixed order in which GREETING and FAREWELL
\* come before QUESTION: an input that starts with a farewell token is
\* classified FAREWELL, also when it contains an interrogative token.
C27_FarewellBeforeQuestion ==
    (intentResult # NoIntent /\ StartsWithToken(intents.FAREWELL))
      => intentResult.intent = intents.FAREWELL

\* C28 as stated: an input that contains an interrogative token and ends with
\* "?" is classified QUESTION with a confidence of at least 0.7 (inputs that
\* start with a greeting or farewell token are left aside).
C28_QuestionWithMarkIsConfident ==
    (/\ intentResult # NoIntent
     /\ Test(PatternOf(intents.QUESTION), CleanInput)
     /\ CleanInput[Len(CleanInput)] = "?"
     /\ ~StartsWithToken(intents.GREETING)
     /\ ~StartsWithToken(intents.FAREWELL))
      => /\ intentResult.intent = intents.QUESTION
         /\ AtLeast(intentResult.confidence, Fraction(7, 10))

\* C28: an input that contains an interrogative token and does not start
\* with a greeting token is classified QUESTION with the confidence
\* min(0.9, 0.5 + matchLength / inputLength): above 0.5, at most 0.9, and at
\* least 0.7 exactly when the matched token is a fifth of the input or more;
\* the fixed 0.7 goes to an input that ends with "?" and matches no pattern.
C28_QuestionConfidenceFollowsFormula ==
    intentResult # NoIntent =>
        /\ (Test(PatternOf(intents.QUESTION), CleanInput)
              /\ ~StartsWithToken(intents.GREETING))
             => /\ intentResult.intent = intents.QUESTION
                /\ ~AtLeast(Fraction(1, 2), intentResult.confidence)
                /\ AtLeast(Fraction(9, 10), intentResult.confidence)
                /\ AtLeast(intentResult.confidence, Fraction(7, 10))
                     <=> 5 * FirstMatchLength(CleanInput, PatternOf(intents.QUESTION))
                              >= Len(CleanInput)
        /\ (/\ CleanInput # <<>>
            /\ CleanInput[Len(CleanInput)] = "?"
            /\ \A k \in 1..Len(intentPatterns) : ~Test(intentPatterns[k], CleanInput))
             => /\ intentResult.intent = intents.QUESTION
                /\ intentResult.confidence = Fraction(7, 10)

\* "What is wind efficiency?": QUESTION, 0.5 + 4/24
C28_Witness ==
    /\ intentInput = <<"W", "h", "a", "t", " ", "i", "s", " ", "w", "i", "n", "d", " ",
                       "e", "f", "f", "i", "c", "i", "e", "n", "c", "y", "?">>
    /\ intentResult.intent = intents.QUESTION
    /\ intentResult.confidence = Fraction(160, 240)

\* C29: an input that contains a clarification phrase ("explain more",
\* "clarify", "elaborate", ...) and does not start with a greeting or a
\* farewell token is classified CLARIFICATION.
C29_ClarificationPhraseIsClarification ==
    (/\ intentResult # NoIntent
     /\ Test(PatternOf(intents.CLARIFICATION), CleanInput)
     /\ ~StartsWithToken(intents.GREETING)
     /\ ~StartsWithToken(intents.FAREWELL))
      => intentResult.intent = intents.CLARIFICATION

-----------------------------------------------------------------------------
(* Claims about slide ranking (checked under SpecRank)                      *)

\* C30: for every query and slide list the ranker returns at most 3 entries,
\* each of them a slide of the list with a score above 0, ordered by score
\* descending and, among equal scores, by position in the list ascending.
C30_RankingIsTopThreeOrdered ==
    relevantSlides # NoRanking
      => /\ Len(relevantSlides) <= 3
         /\ \A i \in 1..Len(relevantSlides) :
              /\ relevantSlides[i].relevanceScore > 0
              /\ rankInput.slideContext.slides.type = "array"
              /\ relevantSlides[i].slideIndex
                    \in 0 .. Len(rankInput.slideContext.slides.v) - 1
         /\ \A i, j \in 1..Len(relevantSlides) :
              i < j =>
                \/ relevantSlides[i].relevanceScore > relevantSlides[j].relevanceScore
                \/ /\ relevantSlides[i].relevanceScore = relevantSlides[j].relevanceScore
                   /\ relevantSlides[i].slideIndex < relevantSlides[j].slideIndex

\* four slides score, three are returned, with a tie among them and a slide
\* of a higher position ranked first
C30_Witness ==
    /\ relevantSlides # NoRanking
    /\ Len(relevantSlides) = 3
    /\ rankInput.slideContext.slides.type = "array"
    /\ Len(rankInput.slideContext.slides.v) = 4
    /\ \A i \in 1..4 :
         RelevanceScore(Keywords(rankInput.userInput),
                        rankInput.slideContext.slides.v[i]) > 0
    /\ relevantSlides[2].relevanceScore = relevantSlides[3].relevanceScore
    /\ relevantSlides[1].relevanceScore > relevantSlides[2].relevanceScore
    /\ relevantSlides[1].slideIndex > relevantSlides[2].slideIndex

\* C31: every score the relevance ranker returns lies in [0,1] (the weighted
\* keyword sum is divided by the number of query tokens).
C31_ScoresAreNormalized ==
    relevantSlides # NoRanking
      => \A i \in 1..Len(relevantSlides) :
            /\ relevantSlides[i].relevanceScore >= 0
            /\ relevantSlides[i].relevanceScore <= 1

\* the query of the scenario and what the ranker sees of a slide for it
WindQuery == <<"w", "i", "n", "d", " ", "t", "u", "r", "b", "i", "n", "e", " ", "b", "l", "a", "d", "e", "s">>
TitleHas(slide, word) == Includes(toLowerCase(slide.title), word)
BodyHits(slide) ==
    Cardinality({k \in 1..Len(Keywords(WindQuery)) :
        Includes(toLowerCase(StrOr(slide.content, StrOr(slide.text, slide.narration))),
                 Keywords(WindQuery)[k])})

\* the slide list of the call, and whether slide 2 is the only slide whose
\* title contains "wind"
RankedList == rankInput.slideContext.slides.v
OnlySlideTwoHasWindTitle ==
    /\ rankInput.userInput = WindQuery
    /\ rankInput.slideContext.slides.type = "array"
    /\ Len(RankedList) >= 2
    /\ \A i \in 1..Len(RankedList) :
         TitleHas(RankedList[i], <<"w", "i", "n", "d">>) <=> i = 2

\* C32 as stated: for the query "wind turbine blades" and any slide list in
\* which slide 2 is the only slide whose title contains "wind", slide 2 is
\* ranked first.
C32_WindTitleRanksFirst ==
    (relevantSlides # NoRanking /\ OnlySlideTwoHasWindTitle)
      => /\ Len(relevantSlides) >= 1
         /\ relevantSlides[1].slideIndex = 1

\* C32: for the query "wind turbine blades", slide 2 is ranked first when its
\* title contains "wind", no other slide's title contains a query token and
\* no other slide's body contains more than one query token.
C32_WindTitleRanksFirstAmongWeakerSlides ==
    (/\ relevantSlides # NoRanking
     /\ OnlySlideTwoHasWindTitle
     /\ \A i \in 1..Len(RankedList) :
          i # 2 => /\ \A k \in 1..Len(Keywords(WindQuery)) :
                        ~TitleHas(RankedList[i], Keywords(WindQuery)[k])
                   /\ BodyHits(RankedList[i]) <= 1)
      => /\ Len(relevantSlides) >= 1
         /\ relevantSlides[1].slideIndex = 1

\* slide 2 wins by its title alone against a slide whose body mentions wind
C32_Witness ==
    /\ relevantSlides # NoRanking
    /\ OnlySlideTwoHasWindTitle
    /\ BodyHits(RankedList[2]) = 0
    /\ BodyHits(RankedList[1]) = 1
    /\ Len(relevantSlides) = 2
    /\ relevantSlides[1].slideIndex = 1
    /\ relevantSlides[2].slideIndex = 0

-----------------------------------------------------------------------------
(* Claims about the search over an indexed presentation (SpecSearch)        *)

\* the provider call threw, or its answer is not a parseable ranking
AiRankingFailed ==
    searchInput.answer.kind \in {"throws", "text", "null", "object", "not_array",
                                 "array_with_null"}

\* C33: for an indexed presentation findRelevantSlides never rejects; when the
\* provider call throws or its answer cannot be parsed into a ranking, the
\* result is the keyword ranking: the slides whose content holds a word of
\* the question, each with the share of the question's words it holds, best
\* first.
C33_SearchFallsBackToKeywords ==
    (searchResult # NoSearch /\ searchInput.indexed)
      => /\ searchResult.kind # "error"
         /\ AiRankingFailed =>
              LET words == SplitWs(toLowerCase(searchInput.userQuestion))
                  list == searchResult.relevantSlides
                  Hits(p) == {k \in 1..Len(words) :
                                 IncludesWord(SearchContent(searchInput.slides[p]), words[k])}
              IN /\ searchResult.kind = "fallback"
                 /\ \A p \in 1..Len(searchInput.slides) :
                      Hits(p) # {} <=> \E i \in 1..Len(list) : list[i].pageNumber = p
                 /\ \A i \in 1..Len(list) :
                      list[i].score = Fraction(Cardinality(Hits(list[i].pageNumber)),
                                               Len(words))
                 /\ \A i, j \in 1..Len(list) :
                      i < j => AtLeast(list[i].score, list[j].score)

\* the provider answered with text that is not JSON and the keyword ranking
\* lists two slides, the later one first
C33_Witness ==
    /\ searchInput.indexed
    /\ searchInput.answer.kind = "text"
    /\ searchResult.kind = "fallback"
    /\ Len(searchResult.relevantSlides) = 2
    /\ searchResult.relevantSlides[1].pageNumber = 2
    /\ ~AtLeast(searchResult.relevantSlides[2].score, searchResult.relevantSlides[1].score)

-----------------------------------------------------------------------------
(* Claims about audio delivery (checked under SpecAudio)                    *)

\* the header is bytes=a-b or bytes=a- with 0 <= a <= b < fileSize
ValidRange(a, b) ==
    /\ audioRequest.exists
    /\ a \in 0 .. audioRequest.fileSize - 1
    /\ b \in a .. audioRequest.fileSize - 1
    /\ \/ audioRequest.range
            = <<"b", "y", "t", "e", "s", "=">> \o Decimal(a) \o <<"-">> \o Decimal(b)
       \/ /\ b = audioRequest.fileSize - 1
          /\ audioRequest.range = <<"b", "y", "t", "e", "s", "=">> \o Decimal(a) \o <<"-">>

\* C34: for an existing entry of size S and Range: bytes=a-b with
\* 0 <= a <= b < S (b omitted: b = S-1) the answer has status 206,
\* Content-Range "bytes a-b/S", Content-Length b-a+1, Accept-Ranges bytes and
\* carries exactly the bytes a..b of the file.
C34_RangeRequestServesWindow ==
    audioResponse # NoAudioResponse =>
        \A a, b \in 0 .. audioRequest.fileSize - 1 :
            ValidRange(a, b) =>
                /\ audioResponse.status = 206
                /\ audioResponse.contentRange =
                      <<"b", "y", "t", "e", "s", " ">> \o Decimal(a) \o <<"-">>
                          \o Decimal(b) \o <<"/">> \o Decimal(audioRequest.fileSize)
                /\ audioResponse.contentLength = b - a + 1
                /\ audioResponse.acceptRanges = <<"b", "y", "t", "e", "s">>
                /\ Len(audioResponse.body) = b - a + 1
                /\ \A i \in 1 .. b - a + 1 :
                      audioResponse.body[i] = FileBytes(audioRequest.fileSize)[a + i]

\* bytes=0-99 of the 500-byte entry: 206, Content-Length 100, the first 100 bytes
C34_Witness ==
    /\ audioRequest = RangeScenario
    /\ audioResponse.status = 206
    /\ audioResponse.contentLength = 100
    /\ audioResponse.body = SubSeq(FileBytes(500), 1, 100)

(***************************************************************************)
(* Claims about the stages of one ask (checked under SpecConvLong)         *)
(***************************************************************************)

StageOrder ==
    <<"intent", "prompt", "text", "speech", "ranking", "turn", "metrics">>

Ran(log, stage) == \E i \in DOMAIN log : log[i] = stage

\* log is the fixed order restricted to the stages that log holds
InOrder(log) == log = SelectSeq(StageOrder, LAMBDA stage : Ran(log, stage))

\* the stages a call has run are stages of the fixed order, in that order;
\* a call whose text generation failed ran nothing after it
StagesInOrder(log) ==
    /\ IF Ran(log, "text_failed")
       THEN /\ log[Len(log)] = "text_failed"
            /\ InOrder(SubSeq(log, 1, Len(log) - 1))
            /\ ~Ran(log, "text")
       ELSE InOrder(log)
    /\ Ran(log, "speech") => Ran(log, "text")
    /\ Ran(log, "turn") => Ran(log, "text")

\* p holds the last three entries of h, or all of h when it has fewer
LastUpToThree(p, h) ==
    LET k == IF Len(h) < 3 THEN Len(h) ELSE 3 IN
    /\ Len(p) = k
    /\ \A i \in 1..k : p[i] = h[Len(h) - k + i]

C36_AudioUrlHasFile ==
    \A r \in DOMAIN req :
        (/\ req[r].pc = "done"
         /\ req[r].audioBy \in {"google", "say"}
         /\ req[r].resp.audioUrl # NoUrl)
        => \E f \in disk : Url(f.key, f.ext) = req[r].resp.audioUrl

(***************************************************************************)
(* Claims about the slide context of a chat request (checked under SpecConv) *)
(***************************************************************************)

\* C37: a slideContext sent in the body of POST /conversation/chat is in effect
\* for that same request, also when the session did not exist before it: the
\* prompt built for the message holds every key of the context that was sent.
C37_SentContextIsUsed ==
    [][\A a \in AskIds :
          (/\ asks[a].pc = "idle" /\ asks'[a].pc = "text"
           /\ lastOp'.kind = "chat"
           /\ lastOp'.body.slideContext # NoContext)
          => lastOp'.body.slideContext \subseteq asks'[a].prompt.slideContext]_vars

(***************************************************************************)
(* Claims about the answer of POST /narrate (checked under SpecCache)      *)
(***************************************************************************)

\* C38: POST /narrate with a slide object answers with a success status and a
\* non-empty narration text, whichever of the vision, text and speech
\* providers fail.
C38_NarrateAlwaysAnswersWithText ==
    \A r \in DOMAIN req :
        (req[r].kind = "narrate" /\ req[r].pc = "done")
        => /\ req[r].resp.status = 200
           /\ Truthy(req[r].resp.narration)

\* a slide with an image and neither text nor title: the narration generator
\* answered with an empty text and every speech engine failed, twice
C38_Witness ==
    \E r \in DOMAIN req :
        /\ req[r].kind = "narrate" /\ req[r].pc = "done"
        /\ req[r].body.hasImage /\ ~Truthy(req[r].body.text)
        /\ req[r].genCalls = 1
        /\ req[r].phase = "fallback"
        /\ req[r].engines # <<>>
        /\ req[r].resp.audioUrl = NoUrl
        /\ Truthy(req[r].resp.narration)

(***************************************************************************)
(* Claims about switching the provider (checked under SpecProv)            *)
(***************************************************************************)

\* a step of POST /ai-providers/switch that called setProvider
SwitchStep ==
    /\ gens' = gens
    /\ <<currentProvider, switchReply>>' # <<currentProvider, switchReply>>
    /\ switchReply'.provider # ""

\* C39: setProvider(name) switches the active provider and returns true only
\* when the named provider is configured; for an unknown or unconfigured name
\* it returns false and leaves the active provider unchanged, and
\* POST /ai-providers/switch then answers 400.
C39_SwitchOnlyToConfigured ==
    [][SwitchStep =>
          LET name == switchReply'.provider
              configured == name \in ProviderNames /\ providers[name]
          IN  IF configured
              THEN /\ switchReply'.success
                   /\ currentProvider' = name
              ELSE /\ ~switchReply'.success
                   /\ switchReply'.status = 400
                   /\ currentProvider' = currentProvider]_vars

=============================================================================
